---- MODULE Spec2Model ----
(***************************************************************************)
(* A model of the GaussianPlume package: the stability index/class         *)
(* conversions of GPFunctions.py, the stability properties of Source and   *)
(* Plume, the preparation stages of Plume (GPPlumeModel.py) and            *)
(* Source.calculate_dxdy (GPSource.py).                                    *)
(*                                                                         *)
(* Python values are records [dtype, kind, v]: kind is the Python type     *)
(* (None, int, str, numpy.str_, list, ndarray), dtype the type of the      *)
(* elements, v the value (a sequence for list and ndarray).                *)
(* The outcome of a call is a record [exc, val]: exc = "" when the call    *)
(* returned val, and the name of the exception class when it raised.       *)
(***************************************************************************)
EXTENDS Integers, Sequences, FiniteSets, TLC

\* ------------------------------------------------------------------ bounds

\* Longest list / ndarray passed to the conversions.
MaxLen == 2
\* Largest stability index tried (indices run from -1 to MaxIndex).
MaxIndex == 6
\* Number of rows of the DataFrame of a Plume.
NRows == 2
\* Most rows of a sheet of dynamic parameters.
MaxRows == 3

\* ----------------------------------------------------------- Python values

None == [dtype |-> "none", kind |-> "None", v |-> <<>>]
PyInt(n) == [dtype |-> "int", kind |-> "int", v |-> n]
PyStr(s) == [dtype |-> "str", kind |-> "str", v |-> s]
NpStr(s) == [dtype |-> "str", kind |-> "str_", v |-> s]
NdArray(dt, s) == [dtype |-> dt, kind |-> "ndarray", v |-> s]
PyList(dt, s) == [dtype |-> dt, kind |-> "list", v |-> s]

Ret(val) == [exc |-> "", val |-> val]
Raise(e) == [exc |-> e, val |-> None]

IsScalar(x) == x.kind \in {"int", "str", "str_"}

\* The elements of a value as numpy sees them: a scalar is one element.
Elems(x) == IF IsScalar(x) THEN <<x.v>> ELSE x.v

\* Python's a == b followed by numpy.all: scalars are broadcast over arrays,
\* values of different dtypes are never equal.
NumpyEq(a, b) ==
    /\ a.dtype = b.dtype
    /\ a.dtype # "none"
    /\ LET ea == Elems(a)
           eb == Elems(b)
       IN  IF IsScalar(a) /\ ~IsScalar(b) THEN \A i \in DOMAIN eb : eb[i] = ea[1]
           ELSE IF IsScalar(b) /\ ~IsScalar(a) THEN \A i \in DOMAIN ea : ea[i] = eb[1]
           ELSE ea = eb

\* ------------------------------------------------- str.upper / str.lower

UpperCase == {"A", "B", "C", "D", "E", "F", "G"}
LowerCase == {"a", "b", "c", "d", "e", "f", "g"}
\* Strings tried as class letters: the twelve valid ones and four invalid ones.
Letters == UpperCase \cup LowerCase \cup {"", "AB"}

Upper(s) ==
    CASE s = "a" -> "A" [] s = "b" -> "B" [] s = "c" -> "C" [] s = "d" -> "D"
      [] s = "e" -> "E" [] s = "f" -> "F" [] s = "g" -> "G" [] OTHER -> s

Lower(s) ==
    CASE s = "A" -> "a" [] s = "B" -> "b" [] s = "C" -> "c" [] s = "D" -> "d"
      [] s = "E" -> "e" [] s = "F" -> "f" [] s = "G" -> "g" [] s = "AB" -> "ab"
      [] OTHER -> s

\* ------------------------------------------- GPFunctions: the conversions

stability_classes == <<"A", "B", "C", "D", "E", "F">>

\* stability_classes[i] for a valid (0-based) index i.
ClassAt(i) == stability_classes[i + 1]

stability_index2class_off(x) ==
    IF x.kind = "int"
    THEN IF x.v \notin 0..5
         THEN Raise("IndexError")
         ELSE Ret(NpStr(stability_classes[((x.v + 1) % 6) + 1]))
    ELSE IF x.kind = "list"
    THEN Raise("TypeError")
    ELSE IF (\E i \in DOMAIN x.v : x.v[i] < 0) \/ (\E i \in DOMAIN x.v : x.v[i] > 5)
         THEN Raise("IndexError")
         ELSE Ret(NdArray("str", [i \in DOMAIN x.v |-> stability_classes[((x.v[i] + 1) % 6) + 1]]))

\* GPFunctions.stability_index2class, for an int, a list of int or an
\* ndarray of int. A Python int is range-checked with `not in range(6)`;
\* anything else is compared with `< 0` and `> 5`, which numpy does element
\* by element and which Python 3 refuses for a list (TypeError).
stability_index2class(x) ==
    IF x.kind = "int"
    THEN IF x.v \notin 0..5
         THEN Raise("IndexError")
         ELSE Ret(NpStr(ClassAt(x.v)))
    ELSE IF x.kind = "list"
    THEN Raise("TypeError")
    ELSE IF (\E i \in DOMAIN x.v : x.v[i] < 0) \/ (\E i \in DOMAIN x.v : x.v[i] > 5)
         THEN Raise("IndexError")
         ELSE Ret(NdArray("str", [i \in DOMAIN x.v |-> ClassAt(x.v[i])]))

\* numpy.where(s == stability_classes)[0]: the 0-based places of s.
WhereClass(s) ==
    LET hits == {i \in 0..5 : ClassAt(i) = s}
    IN  IF hits = {} THEN <<>> ELSE <<CHOOSE i \in hits : TRUE>>

\* The loop of lines 401-408 over stability_classes[from..5], on the index
\* array idx (initially all -1) for the entries arr.
RECURSIVE ClassLoop(_, _, _)
ClassLoop(arr, idx, sc_i) ==
    IF sc_i > 5 THEN idx
    ELSE LET sc == ClassAt(sc_i)
             up == [i \in DOMAIN arr |-> IF arr[i] = sc THEN sc_i ELSE idx[i]]
             lo == [i \in DOMAIN arr |-> IF arr[i] = Lower(sc) THEN sc_i ELSE up[i]]
         IN  ClassLoop(arr, lo, sc_i + 1)

stability_class2index_upper_only(x) ==
    IF x.kind = "str"
    THEN LET idx == WhereClass(x.v)
         IN  IF Len(idx) = 0 THEN Raise("ValueError") ELSE Ret(NdArray("int", idx))
    ELSE LET arr == Elems(x)
             idx == [i \in DOMAIN arr |->
                        IF \E k \in 0..5 : ClassAt(k) = arr[i]
                        THEN CHOOSE k \in 0..5 : ClassAt(k) = arr[i] ELSE -1]
         IN  IF \E i \in DOMAIN idx : idx[i] = -1
             THEN Raise("ValueError")
             ELSE Ret(NdArray("int", idx))

stability_class2index_keep_invalid(x) ==
    IF x.kind = "str"
    THEN LET idx == WhereClass(Upper(x.v))
         IN  IF Len(idx) = 0 THEN Raise("ValueError") ELSE Ret(NdArray("int", idx))
    ELSE LET arr == Elems(x)
         IN  Ret(NdArray("int", ClassLoop(arr, [i \in DOMAIN arr |-> -1], 0)))

\* GPFunctions.stability_class2index, for a str, a numpy.str_, a list of str
\* or an ndarray of str. A str is upper-cased and looked up; a
\* list is converted to an ndarray and every entry is matched against the
\* six letters in both cases. A numpy.str_ (what stability_index2class
\* returns for an int) is not a str for `type(x) == str` and takes the
\* array branch as one entry.
stability_class2index(x) ==
    IF x.kind = "str"
    THEN LET idx == WhereClass(Upper(x.v))
         IN  IF Len(idx) = 0 THEN Raise("ValueError") ELSE Ret(NdArray("int", idx))
    ELSE LET arr == Elems(x)
             idx == ClassLoop(arr, [i \in DOMAIN arr |-> -1], 0)
         IN  IF \E i \in DOMAIN idx : idx[i] = -1
             THEN Raise("ValueError")
             ELSE Ret(NdArray("int", idx))

\* numpy.where(idx == v)[0]: the places of v in idx, 0-based and ascending.
RECURSIVE Where(_, _, _)
Where(idx, v, k) ==
    IF k > Len(idx) THEN <<>>
    ELSE (IF idx[k] = v THEN <<k - 1>> ELSE <<>>) \o Where(idx, v, k + 1)

\* What a message states: the values it names, in order, or the number it
\* gives.
NoMessage == [form |-> "none", values |-> <<>>, count |-> 0]
NamesValues(form, values) == [form |-> form, values |-> values, count |-> 0]
GivesCount(form, n) == [form |-> form, values |-> <<>>, count |-> n]

stability_class2index_message_names_first(x) ==
    IF x.kind = "str"
    THEN IF Len(WhereClass(Upper(x.v))) = 0
         THEN NamesValues("stability_class {:s} does not exist", <<x.v>>)
         ELSE NoMessage
    ELSE LET arr == Elems(x)
             idx_invalid == Where(ClassLoop(arr, [i \in DOMAIN arr |-> -1], 0), -1, 1)
         IN  IF Len(idx_invalid) = 0 THEN NoMessage
             ELSE IF Len(idx_invalid) < 3
             THEN NamesValues("Invalid inputs for stability_class:", <<arr[idx_invalid[1] + 1]>>)
             ELSE GivesCount("{:d} invalid inputs for stability_class", Len(idx_invalid))

\* The message of the ValueError stability_class2index raises (lines 388
\* and 411-419): for a str the string itself; for a list or an ndarray the
\* entries left at -1 by the loop, appended one by one to the message when
\* there are fewer than three of them, and their number otherwise.
stability_class2index_message(x) ==
    IF x.kind = "str"
    THEN IF Len(WhereClass(Upper(x.v))) = 0
         THEN NamesValues("stability_class {:s} does not exist", <<x.v>>)
         ELSE NoMessage
    ELSE LET arr == Elems(x)
             idx_invalid == Where(ClassLoop(arr, [i \in DOMAIN arr |-> -1], 0), -1, 1)
         IN  IF Len(idx_invalid) = 0 THEN NoMessage
             ELSE IF Len(idx_invalid) < 3
             THEN NamesValues("Invalid inputs for stability_class:",
                              [k \in DOMAIN idx_invalid |-> arr[idx_invalid[k] + 1]])
             ELSE GivesCount("{:d} invalid inputs for stability_class", Len(idx_invalid))

\* ------------------------------------------------------------ arithmetic

\* Offsets are in kilometres and angles are whole multiples of 90 degrees, so
\* that sin and cos are exact: the model computes the formulas of the
\* sources in exact arithmetic rather than in floating point.
\* numpy.sin(d * GPC.deg2rad) and numpy.cos(d * GPC.deg2rad), d in degrees.
SinDeg(d) == CASE d % 360 = 0 -> 0 [] d % 360 = 90 -> 1
               [] d % 360 = 180 -> 0 [] d % 360 = 270 -> -1
CosDeg(d) == CASE d % 360 = 0 -> 1 [] d % 360 = 90 -> 0
               [] d % 360 = 180 -> -1 [] d % 360 = 270 -> 0

\* GPConstants.latlon2dxdy_lat_conversion_factor and _lon_conversion_factor,
\* kilometres per radian. GPConstants.py is not among the sources.
GPC_latlon2dxdy_lat_conversion_factor == 6371
GPC_latlon2dxdy_lon_conversion_factor == 6371

\* The default of warn_distance_above_meter (100000 m), in kilometres.
warn_distance_above_default == 100

Abs(n) == IF n < 0 THEN -n ELSE n

RECURSIVE Gcd(_, _)
Gcd(a, b) == IF b = 0 THEN a ELSE Gcd(b, a % b)

\* A float as a fraction in lowest terms with den >= 0; IEEE division by
\* zero gives inf (1/0), -inf (-1/0) or nan (0/0).
Float(n, d) ==
    IF d = 0 THEN [num |-> IF n > 0 THEN 1 ELSE IF n < 0 THEN -1 ELSE 0, den |-> 0]
    ELSE LET g == Gcd(Abs(n), Abs(d))
             s == IF d < 0 THEN -1 ELSE 1
         IN  [num |-> s * (n \div g), den |-> s * (d \div g)]

CountAbove_inclusive(d2, thr) == Cardinality({i \in DOMAIN d2 : d2[i] >= thr * thr})

\* Number of entries of the array of squared distances above the threshold:
\* len(numpy.where(dist > warn_distance_above_meter)[0]).
CountAbove(d2, thr) == Cardinality({i \in DOMAIN d2 : d2[i] > thr * thr})

\* ---------------------------------------------- GPFunctions: geometry

\* GPFunctions.latlon2dlatdlon on arrays (pandas Series) of equal length.
\* warn is the number of points the warning reports, 0 when none is given.
latlon2dlatdlon(lat, lon, latR, lonR, thr) ==
    LET dlat == [i \in DOMAIN lat |->
                    SinDeg(lat[i] - latR[i]) * GPC_latlon2dxdy_lat_conversion_factor]
        dlon == [i \in DOMAIN lat |->
                    CosDeg(lat[i]) * SinDeg(lon[i] - lonR[i])
                        * GPC_latlon2dxdy_lon_conversion_factor]
        dist2 == [i \in DOMAIN lat |-> dlat[i] * dlat[i] + dlon[i] * dlon[i]]
    IN  [dlat |-> dlat, dlon |-> dlon, warn |-> CountAbove(dist2, thr)]

dlatdlon2dxdy_swapped(dlatS, dlonS, dlatM, dlonM, wind_direction, thr) ==
    LET dx == [i \in DOMAIN dlatS |->
                  (dlatS[i] - dlatM[i]) * SinDeg(wind_direction[i])
                  + (dlonS[i] - dlonM[i]) * CosDeg(wind_direction[i])]
        dy == [i \in DOMAIN dlatS |->
                  (dlatS[i] - dlatM[i]) * CosDeg(wind_direction[i])
                  - (dlonS[i] - dlonM[i]) * SinDeg(wind_direction[i])]
        dist2 == [i \in DOMAIN dlatS |-> dx[i] * dx[i] + dy[i] * dy[i]]
    IN  [dx |-> dx, dy |-> dy, warn |-> CountAbove(dist2, thr)]

\* GPFunctions.dlatdlon2dxdy on arrays of equal length.
dlatdlon2dxdy(dlatS, dlonS, dlatM, dlonM, wind_direction, thr) ==
    LET dx == [i \in DOMAIN dlatS |->
                  (dlatS[i] - dlatM[i]) * CosDeg(wind_direction[i])
                  + (dlonS[i] - dlonM[i]) * SinDeg(wind_direction[i])]
        dy == [i \in DOMAIN dlatS |->
                  (dlatS[i] - dlatM[i]) * SinDeg(wind_direction[i])
                  - (dlonS[i] - dlonM[i]) * CosDeg(wind_direction[i])]
        dist2 == [i \in DOMAIN dlatS |-> dx[i] * dx[i] + dy[i] * dy[i]]
    IN  [dx |-> dx, dy |-> dy, warn |-> CountAbove(dist2, thr)]

\* GPFunctions.calculate_tc on arrays: dx / (3600 * wind_speed), numpy's
\* element-wise division.
calculate_tc(dx, wind_speed) ==
    [i \in DOMAIN dx |-> Float(dx[i], 3600 * wind_speed[i])]

\* ------------------------------- GPFunctions: travel time on any numbers

PyFloat(f) == [dtype |-> "float", kind |-> "float", v |-> f]

\* A Python number (int or float), as opposed to an ndarray.
IsNumber(x) == x.kind \in {"int", "float"}

\* The number of entries of the result of an element-wise operation on the
\* values xs (a sequence): 0 stands for a result that is a number.
RECURSIVE Broadcast(_)
Broadcast(xs) ==
    IF xs = <<>> THEN 0
    ELSE IF IsNumber(Head(xs)) THEN Broadcast(Tail(xs))
    ELSE Len(Head(xs).v)

\* Entry i of x as numpy broadcasts it: a number is every entry.
Entry(x, i) == IF IsNumber(x) THEN x.v ELSE x.v[i]

\* The value of the entries e (a function of 1..n) computed from the
\* operands xs: a Python float when they are all numbers, else an ndarray.
Result(xs, e) ==
    IF Broadcast(xs) = 0 THEN PyFloat(e[1]) ELSE NdArray("float", e)

\* The entries of an element-wise result run over 1..Span(xs).
Span(xs) == IF Broadcast(xs) = 0 THEN 1 ELSE Broadcast(xs)

\* GPFunctions.calculate_tc on ints and int arrays: Python's own division
\* raises ZeroDivisionError for a zero divisor, numpy's gives inf or nan.
GPF_calculate_tc(dx, wind_speed) ==
    LET xs == <<dx, wind_speed>>
        e == [i \in 1..Span(xs) |-> Float(Entry(dx, i), 3600 * Entry(wind_speed, i))]
    IN  IF IsNumber(dx) /\ IsNumber(wind_speed) /\ 3600 * wind_speed.v = 0
        THEN Raise("ZeroDivisionError")
        ELSE Ret(Result(xs, e))

\* ------------------------------------ GPFunctions: calculate_concentration

\* The number x is zero. A float is a fraction, or a sigma_y or sigma_z
\* kept as the values it was computed from: with z0 above zero sigma_y is
\* zero when dx or tc is, sigma_z when dx and the offset are.
IsZero(x) ==
    IF x.dtype = "int" THEN x.v = 0
    ELSE IF "fn" \in DOMAIN x.v
    THEN \/ x.v.fn = "sigma_y" /\ (x.v.dx.num = 0 \/ x.v.z0 = 0 \/ x.v.tc.num = 0)
         \/ x.v.fn = "sigma_z" /\ x.v.dx.num = 0 /\ x.v.off = 0
    ELSE x.v.num = 0 /\ x.v.den # 0

\* What Python raises for num / den, num and den being the operands a
\* quotient is computed from: TypeError when one of them is None,
\* ZeroDivisionError when all are Python numbers and some factor of the
\* divisor is zero (numpy's own division gives inf or nan instead).
Quotient(num, den) ==
    IF \E k \in DOMAIN (num \o den) : (num \o den)[k] = None THEN "TypeError"
    ELSE IF /\ \A k \in DOMAIN (num \o den) : IsNumber((num \o den)[k])
            /\ \E k \in DOMAIN den : IsZero(den[k])
    THEN "ZeroDivisionError"
    ELSE ""

ConcentrationTermB_linear(dy, sigma_y) == Float(-dy, 2 * sigma_y * sigma_y)

\* Line 271, the exponent of B of one entry: -dy**2 / (2 * sigma_y**2).
ConcentrationTermB(dy, sigma_y) == Float(-(dy * dy), 2 * sigma_y * sigma_y)

\* Lines 272-275, the exponent of D, E or F for the height h.
ConcentrationTermZ(h, sigma_z) == Float(-(h * h), 2 * sigma_z * sigma_z)

\* The first exception among those e lists, "" when there is none.
RECURSIVE FirstError(_)
FirstError(e) ==
    IF e = <<>> THEN "" ELSE IF Head(e) # "" THEN Head(e) ELSE FirstError(Tail(e))

\* What GPFunctions.calculate_concentration raises: the quotients of lines
\* 270, 271, 273, 274, 275 and 277 in that order.
ConcentrationError(qs, wind_speed, sigma_y, sigma_z, dy, zr, hs, hm, molecular_mass) ==
    FirstError(<< Quotient(<<qs>>, <<wind_speed, sigma_y, sigma_z>>),
                  Quotient(<<dy>>, <<sigma_y>>),
                  Quotient(<<zr, hs>>, <<sigma_z>>),
                  Quotient(<<zr, hm, hs>>, <<sigma_z>>),
                  IF molecular_mass = None THEN "TypeError" ELSE "" >>)

\* Lines 270-277, the entries of the result on ints and int arrays. An
\* entry is kept as the terms it is computed from: A without its factor
\* 1 / (2 pi), and the exponents of B, D, E and F.
ConcentrationEntries(xs, qs, wind_speed, sigma_y, sigma_z, dy, zr, hs, hm, molecular_mass) ==
    [i \in 1..Span(xs) |->
        [A |-> Float(Entry(qs, i),
                     Entry(wind_speed, i) * Entry(sigma_y, i) * Entry(sigma_z, i)),
         B |-> ConcentrationTermB(Entry(dy, i), Entry(sigma_y, i)),
         D |-> ConcentrationTermZ(Entry(zr, i) - Entry(hs, i), Entry(sigma_z, i)),
         E |-> ConcentrationTermZ(Entry(zr, i) + Entry(hs, i), Entry(sigma_z, i)),
         F |-> ConcentrationTermZ(Entry(zr, i) - (2 * Entry(hm, i) - Entry(hs, i)),
                                  Entry(sigma_z, i)),
         molecular_mass |-> Entry(molecular_mass, i)]]

\* GPFunctions.calculate_concentration.
calculate_concentration(qs, wind_speed, sigma_y, sigma_z, dy, zr, hs, hm, molecular_mass) ==
    IF ConcentrationError(qs, wind_speed, sigma_y, sigma_z, dy, zr, hs, hm,
                          molecular_mass) # ""
    THEN Raise(ConcentrationError(qs, wind_speed, sigma_y, sigma_z, dy, zr, hs, hm,
                                  molecular_mass))
    ELSE Ret(Result(<<qs, wind_speed, sigma_y, sigma_z, dy, zr, hs, hm, molecular_mass>>,
                    ConcentrationEntries(
                        <<qs, wind_speed, sigma_y, sigma_z, dy, zr, hs, hm, molecular_mass>>,
                        qs, wind_speed, sigma_y, sigma_z, dy, zr, hs, hm, molecular_mass)))

\* -------------------------------------------- GPFunctions: calculate_sigma

\* numpy.nan
NaN == Float(0, 0)

\* An entry of an array of dtype dt as a float.
AsFloat(dt, e) == IF dt = "int" THEN Float(e, 1) ELSE e

\* e < m for an entry e of dtype dt and an int m; nan is below nothing.
Below(dt, e, m) ==
    LET f == AsFloat(dt, e)
    IN  IF f.den = 0 THEN f.num < 0 ELSE f.num < m * f.den

\* The entries of x as floats: a number is one entry.
Floats(x) ==
    IF IsNumber(x) THEN <<AsFloat(x.dtype, x.v)>>
    ELSE [i \in DOMAIN x.v |-> AsFloat(x.dtype, x.v[i])]

\* An entry of sigma_y or sigma_z that is not-a-number.
SigmaNaN ==
    [fn |-> "nan", dx |-> NaN, z0 |-> 0, tc |-> NaN, c |-> <<0, 0>>, off |-> 0]

\* Line 232, one entry of sigma_y, kept as the values it is computed from:
\* c[1] * dx**c[2] * z0**0.2 * tc**0.35 is nan when dx or tc is.
SigmaY(dx, z0, tc, row) ==
    IF dx = NaN \/ tc = NaN THEN SigmaNaN
    ELSE [fn |-> "sigma_y", dx |-> dx, z0 |-> z0, tc |-> tc,
          c |-> <<row[1], row[2]>>, off |-> 0]

\* Line 233, one entry of sigma_z:
\* c[1] * dx**c[2] * (10 * z0)**(ca * dx**cb) + offset_sigma_z.
SigmaZ(dx, z0, row, off) ==
    IF dx = NaN THEN SigmaNaN
    ELSE [fn |-> "sigma_z", dx |-> dx, z0 |-> z0, tc |-> NaN,
          c |-> <<row[3], row[4]>>, off |-> off]

\* Lines 217-221: the entries of dx below zero are set to nan in the array
\* the caller passed, and the same entries of tc when tc is an array. A
\* number cannot be assigned into, and an int array cannot hold nan.
MaskNegative(dx, tc) ==
    LET idx_nan == {i \in 1..Span(<<dx>>) : Below(dx.dtype, Entry(dx, i), 0)}
        dx1 == [dx EXCEPT !.v = [i \in DOMAIN dx.v |-> IF i \in idx_nan THEN NaN ELSE dx.v[i]]]
        tc1 == [tc EXCEPT !.v = [i \in DOMAIN tc.v |-> IF i \in idx_nan THEN NaN ELSE tc.v[i]]]
    IN  IF dx = None THEN [dx |-> dx, tc |-> tc, exc |-> "TypeError"]
        ELSE IF idx_nan = {} THEN [dx |-> dx, tc |-> tc, exc |-> ""]
        ELSE IF IsNumber(dx) THEN [dx |-> dx, tc |-> tc, exc |-> "TypeError"]
        ELSE IF dx.dtype = "int" THEN [dx |-> dx, tc |-> tc, exc |-> "ValueError"]
        ELSE IF tc.kind # "ndarray" THEN [dx |-> dx1, tc |-> tc, exc |-> ""]
        ELSE IF \E i \in idx_nan : i > Len(tc.v)
        THEN [dx |-> dx1, tc |-> tc, exc |-> "IndexError"]
        ELSE IF tc.dtype = "int" THEN [dx |-> dx1, tc |-> tc, exc |-> "ValueError"]
        ELSE [dx |-> dx1, tc |-> tc1, exc |-> ""]

\* f < g for two floats, g finite; nan is below nothing.
FloatLess(f, g) ==
    IF f.den = 0 THEN f.num < 0 ELSE f.num * g.den < g.num * f.den

\* A finite float as numpy stores it into an array of ints: cut off
\* towards zero.
Trunc(f) == IF f.num >= 0 THEN f.num \div f.den ELSE -((-f.num) \div f.den)

\* What tc[idx] = value leaves in an array of dtype dt.
Stored(dt, value) ==
    IF dt = "int" THEN Trunc(AsFloat(value.dtype, value.v))
    ELSE AsFloat(value.dtype, value.v)

\* Lines 223-227: the entries of tc below tc_minimum are set to it, in the
\* caller's array when tc is one (an array of ints stores it as an int), in
\* the local name when tc is a number. arg is the caller's tc after this, tc
\* the value computed with.
ClampTc(tc, tc_minimum) ==
    LET lo == AsFloat(tc_minimum.dtype, tc_minimum.v)
        arr == [tc EXCEPT !.v = [i \in DOMAIN tc.v |->
                   IF FloatLess(AsFloat(tc.dtype, tc.v[i]), lo)
                   THEN Stored(tc.dtype, tc_minimum) ELSE tc.v[i]]]
    IN  IF tc = None THEN [arg |-> tc, tc |-> tc, exc |-> "TypeError"]
        ELSE IF tc.kind = "ndarray" THEN [arg |-> arr, tc |-> arr, exc |-> ""]
        ELSE IF FloatLess(AsFloat(tc.dtype, tc.v), lo)
        THEN [arg |-> tc, tc |-> tc_minimum, exc |-> ""]
        ELSE [arg |-> tc, tc |-> tc, exc |-> ""]

\* What calculate_sigma gives: the exception raised, sigma_y and sigma_z,
\* and the caller's dx and tc as they are after the call.
SigmaOut(e, sy, sz, dx, tc) ==
    [exc |-> e, sigma_y |-> sy, sigma_z |-> sz, dx |-> dx, tc |-> tc]

\* Entry i of the floats f, a single one standing for every entry.
At(f, i) == IF Len(f) = 1 THEN f[1] ELSE f[i]

\* dispersion_constants[stability_index, :] for one index, which numpy
\* counts from the end when it is below zero.
TableRow(dispersion_constants, index) ==
    dispersion_constants.v[(index % Len(dispersion_constants.v)) + 1]

SigmaFormulas_first_row(dx, z0, tc, arg_tc, dispersion_constants, stability_index, offset_sigma_z) ==
    LET rows == Len(dispersion_constants.v)
        row(i) == TableRow(dispersion_constants, Entry(stability_index, 1))
        sy == [i \in 1..Span(<<dx, tc, stability_index>>) |->
                  SigmaY(At(Floats(dx), i), z0.v, At(Floats(tc), i), row(i))]
        sz == [i \in 1..Span(<<dx, stability_index>>) |->
                  SigmaZ(At(Floats(dx), i), z0.v, row(i), offset_sigma_z.v)]
    IN  IF dispersion_constants = None \/ z0 = None
        THEN SigmaOut("TypeError", None, None, dx, arg_tc)
        ELSE IF \E i \in 1..Span(<<stability_index>>) :
                    Entry(stability_index, i) \notin (-rows)..(rows - 1)
        THEN SigmaOut("IndexError", None, None, dx, arg_tc)
        ELSE IF offset_sigma_z = None
        THEN SigmaOut("TypeError", None, None, dx, arg_tc)
        ELSE SigmaOut("", Result(<<dx, tc, stability_index>>, sy),
                      Result(<<dx, stability_index>>, sz), dx, arg_tc)

\* Lines 229-235, with dx as masked and tc as clamped: the table is indexed
\* by the stability index, a number or an array with one index per entry,
\* and sigma_y and sigma_z are computed entry by entry. arg_tc is the
\* caller's tc.
SigmaFormulas(dx, z0, tc, arg_tc, dispersion_constants, stability_index, offset_sigma_z) ==
    LET rows == Len(dispersion_constants.v)
        row(i) == TableRow(dispersion_constants, Entry(stability_index, i))
        sy == [i \in 1..Span(<<dx, tc, stability_index>>) |->
                  SigmaY(At(Floats(dx), i), z0.v, At(Floats(tc), i), row(i))]
        sz == [i \in 1..Span(<<dx, stability_index>>) |->
                  SigmaZ(At(Floats(dx), i), z0.v, row(i), offset_sigma_z.v)]
    IN  IF dispersion_constants = None \/ z0 = None
        THEN SigmaOut("TypeError", None, None, dx, arg_tc)
        ELSE IF \E i \in 1..Span(<<stability_index>>) :
                    Entry(stability_index, i) \notin (-rows)..(rows - 1)
        THEN SigmaOut("IndexError", None, None, dx, arg_tc)
        ELSE IF offset_sigma_z = None
        THEN SigmaOut("TypeError", None, None, dx, arg_tc)
        ELSE SigmaOut("", Result(<<dx, tc, stability_index>>, sy),
                      Result(<<dx, stability_index>>, sz), dx, arg_tc)

\* Lines 223-235, k being tc as ClampTc leaves it.
SigmaClamped(dx, z0, k, tc, dispersion_constants, stability_index, offset_sigma_z) ==
    IF k.exc # "" THEN SigmaOut(k.exc, None, None, dx, tc)
    ELSE SigmaFormulas(dx, z0, k.tc, k.arg, dispersion_constants, stability_index,
                       offset_sigma_z)

\* Lines 223-235, m being dx and tc as MaskNegative leaves them.
SigmaMasked(m, z0, dispersion_constants, stability_index, tc_minimum, offset_sigma_z) ==
    IF m.exc # "" THEN SigmaOut(m.exc, None, None, m.dx, m.tc)
    ELSE SigmaClamped(m.dx, z0, ClampTc(m.tc, tc_minimum), m.tc, dispersion_constants,
                      stability_index, offset_sigma_z)

\* GPFunctions.calculate_sigma: the exception raised, sigma_y and sigma_z,
\* and the caller's dx and tc as they are after the call.
calculate_sigma(dx, z0, tc, dispersion_constants, stability_index, tc_minimum, offset_sigma_z) ==
    SigmaMasked(MaskNegative(dx, tc), z0, dispersion_constants, stability_index,
                tc_minimum, offset_sigma_z)

\* -------------------------------------- GPFunctions: what the module has

\* The functions GPFunctions.py defines, each with its parameter names.
GPF_signature ==
    [latlon2dlatdlon |-> {"lat", "lon", "latR", "lonR", "warn_distance_above_meter", "verbose"},
     dlatdlon2dxdy |-> {"dlatS", "dlonS", "dlatM", "dlonM", "wind_direction",
                        "warn_distance_above_meter", "verbose"},
     get_dispersion_constants |-> {"dispersion_mode", "verbose"},
     get_molecule_properties |-> {"molecule", "verbose"},
     calculate_tc |-> {"dx", "wind_speed", "verbose"},
     calculate_sigma |-> {"dx", "z0", "tc", "dispersion_constants", "stability_index",
                          "tc_minimum", "offset_sigma_z", "verbose"},
     calculate_concentration |-> {"qs", "wind_speed", "sigma_y", "sigma_z", "dy", "zr",
                                  "hs", "hm", "molecular_mass", "verbose"},
     print_vars |-> {"function_name", "function_vars", "verbose", "self_verbose"},
     stability_index2class |-> {"stability_index", "verbose"},
     stability_class2index |-> {"stability_class", "verbose"},
     handle_filename_path |-> {"filename", "path", "verbose"}]

\* Functions of GPFunctions.py that also take **kwargs.
GPF_var_keyword == {"latlon2dlatdlon", "calculate_sigma"}

\* What Python raises for GPF.<name>(<keywords>=...) before the function
\* body runs: AttributeError when the module has no such name, TypeError for
\* a keyword the function does not take, "" when the call goes through.
GPF_call(name, keywords) ==
    IF name \notin DOMAIN GPF_signature THEN "AttributeError"
    ELSE IF name \notin GPF_var_keyword /\ ~(keywords \subseteq GPF_signature[name])
    THEN "TypeError"
    ELSE ""

\* ------------------------------------------------ GPConstants (missing)

\* GPConstants.dispersion_constants(mode) for the mode "nogepa": the
\* reference table of the tests, in thousandths.
nogepa_table ==
    <<  <<1360, 866, 230, 850>>,
        <<768, 897, 220, 800>>,
        <<470, 907, 200, 760>>,
        <<359, 902, 150, 730>>,
        <<238, 902, 120, 670>>,
        <<200, 902, 100, 620>>  >>

PyTable(t) == [dtype |-> "float", kind |-> "ndarray", v |-> t]

\* GPConstants.dispersion_constants: fails for an unknown mode.
GPC_dispersion_constants(mode) ==
    IF mode = PyStr("nogepa") THEN Ret(PyTable(nogepa_table))
    ELSE Raise("ValueError")

\* GPConstants.molecule_properties: the registry, with the molar mass in
\* g/mol; fails for an unknown name.
GPC_molecule_properties(m) ==
    CASE m = "no" -> Ret([dtype |-> "dict", kind |-> "dict",
                          v |-> [molecule |-> "no", molecular_mass |-> 30]])
      [] m = "ch4" -> Ret([dtype |-> "dict", kind |-> "dict",
                           v |-> [molecule |-> "ch4", molecular_mass |-> 16]])
      [] OTHER -> Raise("LookupError")

\* GPFunctions.get_dispersion_constants(dispersion_mode)
get_dispersion_constants(dispersion_mode) == GPC_dispersion_constants(dispersion_mode)

\* GPFunctions.get_molecule_properties(molecule)
get_molecule_properties(molecule) == GPC_molecule_properties(molecule)

\* ------------------------------------------------------ pandas.DataFrame

\* A DataFrame: its column names in order and, per column, the values of
\* the rows.
DataFrame(columns, data) ==
    [dtype |-> "frame", kind |-> "DataFrame", v |-> [columns |-> columns, data |-> data]]

HasColumn(df, c) == \E i \in DOMAIN df.v.columns : df.v.columns[i] = c

\* df.loc[:, c]
Column(df, c) == df.v.data[c]

\* DataFrame.insert(loc, column, value): ValueError when the column exists
\* (allow_duplicates is False), else the column is put at place loc
\* (0-based) and the later columns move right.
DataFrame_insert(df, loc, column, value) ==
    IF HasColumn(df, column) THEN [exc |-> "ValueError", df |-> df]
    ELSE LET cols == df.v.columns
             n == Len(cols)
             newcols == [i \in 1..(n + 1) |->
                            IF i <= loc THEN cols[i]
                            ELSE IF i = loc + 1 THEN column ELSE cols[i - 1]]
             newdata == [c \in DOMAIN df.v.data \cup {column} |->
                            IF c = column THEN value ELSE df.v.data[c]]
         IN  [exc |-> "", df |-> DataFrame(newcols, newdata)]

\* ------------------------------------- GPImportMeasurementParameters

PyBool(b) == [dtype |-> "bool", kind |-> "bool", v |-> b]

\* Python's truth value of a bool or str argument.
Truthy(x) == (x.kind = "bool" /\ x.v) \/ (x.kind = "str" /\ x.v # "")

\* Lines 150-153 and 171-174: the sheet read for the argument p, its value
\* when it is a str, else the name given.
SheetName(p, name) == IF p.kind = "str" THEN p.v ELSE name

RECURSIVE ForwardFill_no_carry(_, _)
ForwardFill_no_carry(col, last) ==
    IF col = <<>> THEN <<>>
    ELSE <<IF Head(col) = NaN THEN last ELSE Head(col)>>
         \o ForwardFill_no_carry(Tail(col), last)

\* Line 179, fillna(method = "ffill") on one column: a missing cell takes
\* the last valid value above it, last, and stays missing when there is
\* none.
RECURSIVE ForwardFill(_, _)
ForwardFill(col, last) ==
    IF col = <<>> THEN <<>>
    ELSE <<IF Head(col) = NaN THEN last ELSE Head(col)>>
         \o ForwardFill(Tail(col), IF Head(col) = NaN THEN last ELSE Head(col))

\* df.fillna(method = "ffill", inplace = True)
DataFrame_ffill(df) ==
    DataFrame(df.v.columns, [c \in DOMAIN df.v.data |-> ForwardFill(df.v.data[c], NaN)])

\* pandas.read_excel(F, sheetname, ...): ValueError when the workbook has no
\* sheet of that name.
read_excel(wb, sheetname) ==
    IF sheetname \in DOMAIN wb.sheets THEN Ret(wb.sheets[sheetname])
    ELSE Raise("ValueError")

\* Lines 161-164: the rows of the sheet of static parameters, each a name
\* and a value, without those that have no value.
RECURSIVE Valued(_)
Valued(sheet) ==
    IF sheet = <<>> THEN <<>>
    ELSE IF Head(sheet)[2] = NaN THEN Valued(Tail(sheet))
    ELSE <<Head(sheet)>> \o Valued(Tail(sheet))

\* Lines 155-159: rows of a name and a value as a DataFrame of one row with
\* a column per name.
Transposed(rows) ==
    DataFrame([i \in DOMAIN rows |-> rows[i][1]],
              [c \in {rows[i][1] : i \in DOMAIN rows} |->
                  <<(CHOOSE r \in {rows[i] : i \in DOMAIN rows} : r[1] = c)[2]>>])

\* Lines 155-164: the DataFrame of the sheet of static parameters.
StaticFrame(sheet) == Transposed(Valued(sheet))

\* Lines 149-167: df_static for the argument static_parameters.
ReadStatic(wb, static_parameters) ==
    IF ~Truthy(static_parameters) THEN Ret(None)
    ELSE IF read_excel(wb, SheetName(static_parameters, "static parameters")).exc # ""
    THEN Raise("ValueError")
    ELSE Ret(StaticFrame(
             read_excel(wb, SheetName(static_parameters, "static parameters")).val))

\* Lines 170-181: df_dynamic for the argument dynamic_parameters.
ReadDynamic(wb, dynamic_parameters) ==
    IF ~Truthy(dynamic_parameters) THEN Ret(None)
    ELSE IF read_excel(wb, SheetName(dynamic_parameters, "dynamic parameters")).exc # ""
    THEN Raise("ValueError")
    ELSE Ret(DataFrame_ffill(
             read_excel(wb, SheetName(dynamic_parameters, "dynamic parameters")).val))

\* GPImportMeasurementParameters.import_measurement_parameters_excel on the
\* workbook at paf: the exception raised, the pair returned and the number
\* of warnings given.
import_measurement_parameters_excel(paf, static_parameters, dynamic_parameters) ==
    IF ~paf.exists
    THEN [exc |-> "", val |-> <<None, None>>, warned |-> 1]
    ELSE IF ReadStatic(paf, static_parameters).exc # ""
    THEN [exc |-> ReadStatic(paf, static_parameters).exc, val |-> <<None, None>>, warned |-> 0]
    ELSE IF ReadDynamic(paf, dynamic_parameters).exc # ""
    THEN [exc |-> ReadDynamic(paf, dynamic_parameters).exc, val |-> <<None, None>>, warned |-> 0]
    ELSE [exc |-> "",
          val |-> <<ReadStatic(paf, static_parameters).val,
                    ReadDynamic(paf, dynamic_parameters).val>>,
          warned |-> 0]

\* --------------------------------------------------- Plume: the stages

\* warnings.warn calls of one function call: none when no point is above the
\* threshold, else one naming the function and the number of points.
Warned(fn, n) == IF n > 0 THEN <<[fn |-> fn, points |-> n]>> ELSE <<>>

CoordinateColumns == {"latS", "lonS", "latM", "lonM", "latR", "lonR"}

calculate_concentration_prepare_dxdy_insert_always(df) ==
    IF df = None
    THEN [df |-> df, exc |-> "AttributeError", warnings |-> <<>>]
    ELSE IF \A c \in CoordinateColumns \cup {"wind_direction"} : HasColumn(df, c)
    THEN LET M == latlon2dlatdlon(Column(df, "latM"), Column(df, "lonM"),
                      Column(df, "latR"), Column(df, "lonR"), warn_distance_above_default)
             S == latlon2dlatdlon(Column(df, "latS"), Column(df, "lonS"),
                      Column(df, "latR"), Column(df, "lonR"), warn_distance_above_default)
             XY == dlatdlon2dxdy(S.dlat, S.dlon, M.dlat, M.dlon,
                      Column(df, "wind_direction"), warn_distance_above_default)
             w == Warned("latlon2dlatdlon", M.warn) \o Warned("latlon2dlatdlon", S.warn)
                      \o Warned("dlatdlon2dxdy", XY.warn)
             idx == Len(df.v.columns)
             r1 == DataFrame_insert(df, idx, "dy", XY.dy)
             r2 == DataFrame_insert(r1.df, idx, "dx", XY.dx)
         IN  IF r1.exc # "" THEN [df |-> df, exc |-> r1.exc, warnings |-> w]
             ELSE [df |-> r2.df, exc |-> r2.exc, warnings |-> w]
    ELSE [df |-> df, exc |-> "ValueError", warnings |-> <<>>]

\* Plume.calculate_concentration_prepare_dxdy on the DataFrame df. The
\* outcome is the DataFrame after the call, the exception raised and the
\* warnings given.
calculate_concentration_prepare_dxdy(df) ==
    IF df = None
    THEN [df |-> df, exc |-> "AttributeError", warnings |-> <<>>]
    ELSE IF HasColumn(df, "dx") /\ HasColumn(df, "dy")
    THEN [df |-> df, exc |-> "", warnings |-> <<>>]
    ELSE IF \A c \in CoordinateColumns \cup {"wind_direction"} : HasColumn(df, c)
    THEN LET M == latlon2dlatdlon(Column(df, "latM"), Column(df, "lonM"),
                      Column(df, "latR"), Column(df, "lonR"), warn_distance_above_default)
             S == latlon2dlatdlon(Column(df, "latS"), Column(df, "lonS"),
                      Column(df, "latR"), Column(df, "lonR"), warn_distance_above_default)
             XY == dlatdlon2dxdy(S.dlat, S.dlon, M.dlat, M.dlon,
                      Column(df, "wind_direction"), warn_distance_above_default)
             w == Warned("latlon2dlatdlon", M.warn) \o Warned("latlon2dlatdlon", S.warn)
                      \o Warned("dlatdlon2dxdy", XY.warn)
             idx == Len(df.v.columns)
             r1 == DataFrame_insert(df, idx, "dy", XY.dy)
             r2 == DataFrame_insert(r1.df, idx, "dx", XY.dx)
         IN  IF r1.exc # "" THEN [df |-> df, exc |-> r1.exc, warnings |-> w]
             ELSE [df |-> r2.df, exc |-> r2.exc, warnings |-> w]
    ELSE [df |-> df, exc |-> "ValueError", warnings |-> <<>>]

\* Plume.calculate_concentration_prepare_tc: the function it calls,
\* GPF.calculate_Tc, is looked up in GPFunctions first.
calculate_concentration_prepare_tc(df) ==
    IF df = None
    THEN [df |-> df, exc |-> "AttributeError"]
    ELSE IF HasColumn(df, "tc")
    THEN [df |-> df, exc |-> ""]
    ELSE IF HasColumn(df, "dx") /\ HasColumn(df, "wind_speed")
    THEN LET e == GPF_call("calculate_Tc", {"verbose"})
             tc == calculate_tc(Column(df, "dx"), Column(df, "wind_speed"))
             r == DataFrame_insert(df, Len(df.v.columns), "tc", tc)
         IN  IF e # "" THEN [df |-> df, exc |-> e] ELSE [df |-> r.df, exc |-> r.exc]
    ELSE [df |-> df, exc |-> "ValueError"]

calculate_concentration_prepare_dispersion_constants_select_again(dc, md) ==
    IF md # None
    THEN LET e == GPF_call("get_dispersion_constants", {"mode", "verbose"})
             r == get_dispersion_constants(md)
         IN  IF e # "" THEN [dispersion_constants |-> None, exc |-> e]
             ELSE IF r.exc # "" THEN [dispersion_constants |-> None, exc |-> r.exc]
             ELSE [dispersion_constants |-> r.val, exc |-> ""]
    ELSE IF dc # None THEN [dispersion_constants |-> dc, exc |-> ""]
    ELSE [dispersion_constants |-> dc, exc |-> "ValueError"]

\* Plume.calculate_concentration_prepare_dispersion_constants on the
\* attributes dispersion_constants and mode: the table after the call and
\* the exception raised.
calculate_concentration_prepare_dispersion_constants(dc, md) ==
    IF dc # None THEN [dispersion_constants |-> dc, exc |-> ""]
    ELSE IF md # None
    THEN LET e == GPF_call("get_dispersion_constants", {"mode", "verbose"})
             r == get_dispersion_constants(md)
         IN  IF e # "" THEN [dispersion_constants |-> dc, exc |-> e]
             ELSE IF r.exc # "" THEN [dispersion_constants |-> dc, exc |-> r.exc]
             ELSE [dispersion_constants |-> r.val, exc |-> ""]
    ELSE [dispersion_constants |-> dc, exc |-> "ValueError"]

\* The loop of lines 295-298 from molecule k on: the lists grow by one entry
\* per molecule until a lookup raises.
RECURSIVE MoleculeLoop(_, _, _, _)
MoleculeLoop(ms, k, props, mass) ==
    IF k > Len(ms) THEN [molecular_properties |-> props, molecular_mass |-> mass, exc |-> ""]
    ELSE LET r == get_molecule_properties(ms[k])
         IN  IF r.exc # ""
             THEN [molecular_properties |-> props, molecular_mass |-> mass, exc |-> r.exc]
             ELSE MoleculeLoop(ms, k + 1, Append(props, r.val),
                               Append(mass, r.val.v.molecular_mass))

calculate_concentration_get_molecular_properties_reset_first(ms, props, mass) ==
    IF ms = None \/ Len(ms.v) = 0
    THEN [molecular_properties |-> PyList("dict", <<>>),
          molecular_mass |-> PyList("int", <<>>), exc |-> "ValueError"]
    ELSE IF mass # None
    THEN [molecular_properties |-> props, molecular_mass |-> mass, exc |-> ""]
    ELSE LET r == MoleculeLoop(ms.v, 1, <<>>, <<>>)
         IN  [molecular_properties |-> PyList("dict", r.molecular_properties),
              molecular_mass |-> PyList("int", r.molecular_mass),
              exc |-> r.exc]

calculate_concentration_get_molecular_properties_always_lookup(ms, props, mass) ==
    IF ms = None \/ Len(ms.v) = 0
    THEN [molecular_properties |-> props, molecular_mass |-> mass, exc |-> "ValueError"]
    ELSE LET r == MoleculeLoop(ms.v, 1, <<>>, <<>>)
         IN  [molecular_properties |-> PyList("dict", r.molecular_properties),
              molecular_mass |-> PyList("int", r.molecular_mass),
              exc |-> r.exc]

\* Plume.calculate_concentration_get_molecular_properties on the attributes
\* molecules, molecular_properties and molecular_mass.
calculate_concentration_get_molecular_properties(ms, props, mass) ==
    IF ms = None \/ Len(ms.v) = 0
    THEN [molecular_properties |-> props, molecular_mass |-> mass, exc |-> "ValueError"]
    ELSE IF mass # None
    THEN [molecular_properties |-> props, molecular_mass |-> mass, exc |-> ""]
    ELSE LET r == MoleculeLoop(ms.v, 1, <<>>, <<>>)
         IN  [molecular_properties |-> PyList("dict", r.molecular_properties),
              molecular_mass |-> PyList("int", r.molecular_mass),
              exc |-> r.exc]

\* ------------------------------------------------------ Plume.import_data

\* GPConstants.implemented_molecules: the names the registry knows.
GPC_implemented_molecules == {"no", "ch4"}

\* The loop of lines 200-205 over the column names cols: every name of an
\* implemented molecule is appended to molecules, which becomes a list when
\* it was None.
RECURSIVE CollectMolecules(_, _)
CollectMolecules(cols, ms) ==
    IF cols = <<>> THEN ms
    ELSE IF Head(cols) \notin GPC_implemented_molecules THEN CollectMolecules(Tail(cols), ms)
    ELSE IF ms = None THEN CollectMolecules(Tail(cols), PyList("str", <<Head(cols)>>))
    ELSE CollectMolecules(Tail(cols), [ms EXCEPT !.v = Append(@, Head(cols))])

\* Plume.import_data, merged being the DataFrame that
\* GPID.merge_measurement_static_dynamic_df returns: it becomes df, and the
\* molecules among its columns are added to molecules.
Plume_import_data(ms, merged) ==
    [df |-> merged, molecules |-> CollectMolecules(merged.v.columns, ms)]

\* ------------------------------------------ Plume.calculate_concentration

\* The preparation methods of Plume, each with the parameters it takes
\* after self, in order.
Plume_signature ==
    [calculate_concentration_prepare_dxdy |-> <<"verbose">>,
     calculate_concentration_prepare_tc |-> <<"verbose">>,
     calculate_concentration_prepare_dispersion_constants |-> <<"verbose">>,
     calculate_concentration_get_molecular_properties |-> <<"verbose">>]

\* What Python raises for self.<name>(<npos positional arguments>,
\* <keywords>=...) before the body of the method runs: TypeError when there
\* are more positional arguments than parameters, when a keyword names a
\* parameter a positional argument has filled, or when a keyword names no
\* parameter.
Plume_call(name, npos, keywords) ==
    IF name \notin DOMAIN Plume_signature THEN "AttributeError"
    ELSE LET sig == Plume_signature[name]
         IN  IF npos > Len(sig) THEN "TypeError"
             ELSE IF \E k \in 1..npos : sig[k] \in keywords THEN "TypeError"
             ELSE IF \E k \in keywords : \A i \in DOMAIN sig : sig[i] # k THEN "TypeError"
             ELSE ""

\* The body of the stage name on the attributes a: the attributes after it
\* and the exception it raised.
StageBody(name, a) ==
    CASE name = "calculate_concentration_prepare_dxdy" ->
           LET r == calculate_concentration_prepare_dxdy(a.df)
           IN  [a |-> [a EXCEPT !.df = r.df], exc |-> r.exc]
      [] name = "calculate_concentration_prepare_tc" ->
           LET r == calculate_concentration_prepare_tc(a.df)
           IN  [a |-> [a EXCEPT !.df = r.df], exc |-> r.exc]
      [] name = "calculate_concentration_prepare_dispersion_constants" ->
           LET r == calculate_concentration_prepare_dispersion_constants(
                        a.dispersion_constants, a.mode)
           IN  [a |-> [a EXCEPT !.dispersion_constants = r.dispersion_constants],
                exc |-> r.exc]
      [] name = "calculate_concentration_get_molecular_properties" ->
           LET r == calculate_concentration_get_molecular_properties(
                        a.molecules, a.molecular_properties, a.molecular_mass)
           IN  [a |-> [a EXCEPT !.molecular_properties = r.molecular_properties,
                                !.molecular_mass = r.molecular_mass],
                exc |-> r.exc]

\* The lines of Plume.calculate_concentration, 317-320: the method called
\* and the number of positional arguments it is given (self, in all but the
\* first).
StageCalls ==
    << [name |-> "calculate_concentration_prepare_dxdy", npos |-> 0],
       [name |-> "calculate_concentration_prepare_tc", npos |-> 1],
       [name |-> "calculate_concentration_prepare_dispersion_constants", npos |-> 1],
       [name |-> "calculate_concentration_get_molecular_properties", npos |-> 1] >>

\* The stage name has run with the outcome b.
Entered(r, name, b) ==
    [a |-> b.a, stages |-> Append(r.stages, name), exc |-> b.exc]

\* One line of Plume.calculate_concentration, self.<name>(<npos positional
\* arguments>, verbose = verbose): the body of the method is entered only
\* when the call itself goes through, which e tells.
ThenCall(r, name, e) ==
    IF e # "" THEN [r EXCEPT !.exc = e]
    ELSE Entered(r, name, StageBody(name, r.a))

\* Lines k and after of the calls, the lines before having given r: an
\* exception ends the method.
RECURSIVE RunCalls(_, _)
RunCalls(r, k) ==
    IF k > Len(StageCalls) \/ r.exc # "" THEN r
    ELSE RunCalls(ThenCall(r, StageCalls[k].name,
                           Plume_call(StageCalls[k].name,
                                      StageCalls[k].npos, {"verbose"})),
                  k + 1)

\* Plume.calculate_concentration on the attributes a: the four stages are
\* called one after the other, the first without and the others with self
\* as a positional argument; the first exception ends the call. stages
\* lists the stages whose body was entered.
Plume_calculate_concentration(a) ==
    RunCalls([a |-> a, stages |-> <<>>, exc |-> ""], 1)

\* --------------------------------------------- Source.calculate_dxdy

\* The attributes of a Source that calculate_dxdy reads and sets.
GeometryFields == {"dx", "dy", "dlatS", "dlonS", "dlatM", "dlonM", "latS", "lonS",
                   "latR", "lonR", "latM", "lonM", "wind_direction"}

\* The other attributes calculate_sigma_y_z and calculate_concentration
\* read and set; molecular_mass is the attribute of that name of
\* Source.molecule.
StageFields == {"wind_speed", "qs", "hs", "hm", "z0", "zr", "offset_sigma_z",
                "dispersion_constants", "tc", "sigma_y", "sigma_z",
                "stability_index", "molecular_mass"}

SourceFields == GeometryFields \cup StageFields

\* GPFunctions.latlon2dlatdlon on numbers.
latlon2dlatdlon_scalar(lat, lon, latR, lonR) ==
    LET r == latlon2dlatdlon(<<lat.v>>, <<lon.v>>, <<latR.v>>, <<lonR.v>>,
                             warn_distance_above_default)
    IN  [dlat |-> PyInt(r.dlat[1]), dlon |-> PyInt(r.dlon[1]), warn |-> r.warn]

\* Source.calculate_dxdy, lines 218-260: the branch taken when dx or dy is
\* None, on the attributes s (a function of SourceFields).
Source_compute_dxdy(s) ==
    LET needS == s["dlatS"] = None \/ s["dlonS"] = None
        canS == s["latS"] # None /\ s["lonS"] # None /\ s["latR"] # None /\ s["lonR"] # None
        S == latlon2dlatdlon_scalar(s["latS"], s["lonS"], s["latR"], s["lonR"])
        s1 == IF needS /\ canS
              THEN [s EXCEPT !["dlatS"] = S.dlat, !["dlonS"] = S.dlon] ELSE s
        w1 == IF needS /\ canS THEN Warned("latlon2dlatdlon", S.warn) ELSE <<>>
        needM == s["dlatM"] = None \/ s["dlonM"] = None
        canM == s["latM"] # None /\ s["lonM"] # None /\ s["latR"] # None /\ s["lonR"] # None
        M == latlon2dlatdlon_scalar(s["latM"], s["lonM"], s["latR"], s["lonR"])
        s2 == IF needM /\ canM
              THEN [s1 EXCEPT !["dlatM"] = M.dlat, !["dlonM"] = M.dlon] ELSE s1
        w2 == IF needM /\ canM THEN w1 \o Warned("latlon2dlatdlon", M.warn) ELSE w1
        XY == dlatdlon2dxdy(<<s2["dlatS"].v>>, <<s2["dlonS"].v>>, <<s2["dlatM"].v>>,
                            <<s2["dlonM"].v>>, <<s2["wind_direction"].v>>,
                            warn_distance_above_default)
    IN  IF needS /\ ~canS THEN [s |-> s, exc |-> "ValueError", warnings |-> <<>>]
        ELSE IF needM /\ ~canM THEN [s |-> s1, exc |-> "ValueError", warnings |-> w1]
        ELSE IF s["wind_direction"] = None
        THEN [s |-> s2, exc |-> "ValueError", warnings |-> w2]
        ELSE [s |-> [s2 EXCEPT !["dx"] = PyInt(XY.dx[1]), !["dy"] = PyInt(XY.dy[1])],
              exc |-> "",
              warnings |-> w2 \o Warned("dlatdlon2dxdy", XY.warn)]

Source_calculate_dxdy_recompute(s) == Source_compute_dxdy(s)

\* Source.calculate_dxdy on the attributes s: the attributes after the call,
\* the exception raised and the warnings.
Source_calculate_dxdy(s) ==
    IF s["dx"] # None /\ s["dy"] # None
    THEN [s |-> s, exc |-> "", warnings |-> <<>>]
    ELSE Source_compute_dxdy(s)

\* ------------------------------ Source.calculate_sigma_y_z and the next

\* Line 288: the assignment of what calculate_sigma returned, r, to sigma_y
\* and sigma_z; an exception leaves them as they were. dx and tc are the
\* objects calculate_sigma was given.
Source_assign_sigma(s, r) ==
    IF r.exc # ""
    THEN [s |-> [s EXCEPT !["dx"] = r.dx, !["tc"] = r.tc], exc |-> r.exc, named |-> ""]
    ELSE [s |-> [s EXCEPT !["dx"] = r.dx, !["tc"] = r.tc,
                          !["sigma_y"] = r.sigma_y, !["sigma_z"] = r.sigma_z],
          exc |-> "", named |-> ""]

\* Source.calculate_sigma_y_z on the attributes s: dx, z0, wind_speed and
\* stability_index are tested for None, each with a ValueError whose message
\* names the variable; the rest is passed to GPFunctions.calculate_sigma as
\* it is. named is the variable the message names, "" when there is none.
Source_calculate_sigma_y_z(s) ==
    IF s["dx"] = None THEN [s |-> s, exc |-> "ValueError", named |-> "dx"]
    ELSE IF s["z0"] = None THEN [s |-> s, exc |-> "ValueError", named |-> "z0"]
    ELSE IF s["wind_speed"] = None
    THEN [s |-> s, exc |-> "ValueError", named |-> "wind_speed"]
    ELSE IF s["stability_index"] = None
    THEN [s |-> s, exc |-> "ValueError", named |-> "stability_index"]
    ELSE Source_assign_sigma(s,
             calculate_sigma(s["dx"], s["z0"], s["tc"], s["dispersion_constants"],
                             s["stability_index"], PyInt(0), s["offset_sigma_z"]))

\* Source.calculate_concentration on the attributes s: nothing is tested,
\* the attributes are passed to GPFunctions.calculate_concentration and the
\* value returned is dropped, so that only an exception shows. The method
\* has no return statement: val, what it returns, is None.
Source_calculate_concentration(s) ==
    [s |-> s,
     exc |-> ConcentrationError(s["qs"], s["wind_speed"], s["sigma_y"], s["sigma_z"],
                                s["dy"], s["zr"], s["hs"], s["hm"], s["molecular_mass"]),
     named |-> "",
     val |-> None]

\* ------------------------------------------------------------------ state

VARIABLES
    scen,               \* which part of the package this behaviour exercises
    conv_in,            \* conversions: the value first passed in
    conv_out,           \* conversions: the outcome of the last call
    conv_ops,           \* conversions: the functions called so far, in order
    cls,                \* stability: the class of the object, Source or Plume
    phase,              \* stability: new (not constructed), live, dead
    _stability_index,   \* stability: the attribute of that name
    _stability_class,   \* stability: the attribute of that name
    df,                 \* Plume.df
    dispersion_constants, \* Plume.dispersion_constants
    mode,               \* Plume.mode
    molecules,          \* Plume.molecules
    molecular_properties, \* Plume.molecular_properties
    molecular_mass,     \* Plume.molecular_mass
    src,                \* Source: the attributes its methods read and set
    call_args,          \* the arguments of the last call, as they are after it
    call_out,           \* the outcome of the last call of a GPFunctions function
    stages,             \* Plume.calculate_concentration: the stages entered, in order
    named,              \* Source stages: the variable the raised message names
    message,            \* stability_class2index: what the raised message states
    warnings,           \* the warnings.warn calls of the last operation
    last,               \* the last operation called
    before,             \* the object's attributes when the last operation began
    raised              \* the exception the last operation raised, "" if none

convVars == <<conv_in, conv_out, conv_ops>>
stabVars == <<cls, phase, _stability_index, _stability_class>>
frameVars == <<df>>
attrVars == <<dispersion_constants, mode, molecules, molecular_properties, molecular_mass>>
plumeVars == <<frameVars, attrVars>>
srcVars == <<src>>
callVars == <<call_args, call_out, stages, named, message>>

vars == <<scen, callVars, convVars, stabVars, plumeVars, srcVars, warnings, last, before, raised>>

\* An attribute that was never assigned (reading it is an AttributeError).
Unset == [dtype |-> "none", kind |-> "unset", v |-> <<>>]

\* ------------------------------------------------------ input enumeration

\* Sequences over S of length lo..hi.
SeqsOf(S, lo, hi) == UNION {[1..n -> S] : n \in lo..hi}

IndexRange == -1..MaxIndex

\* Every index-like value up to MaxLen entries.
IndexInputs ==
    {PyInt(n) : n \in IndexRange}
    \cup {NdArray("int", s) : s \in SeqsOf(IndexRange, 0, MaxLen)}
    \cup {PyList("int", s) : s \in SeqsOf(IndexRange, 0, MaxLen)}

\* Every class-like value up to MaxLen entries.
ClassInputs ==
    {PyStr(s) : s \in Letters}
    \cup {NdArray("str", s) : s \in SeqsOf(Letters, 0, MaxLen)}
    \cup {PyList("str", s) : s \in SeqsOf(Letters, 0, MaxLen)}

\* The values assigned to the stability properties: every int and str, and
\* the arrays and lists over a valid low, a valid high and an invalid entry.
IndexValues ==
    {PyInt(n) : n \in IndexRange}
    \cup {NdArray("int", s) : s \in SeqsOf({0, 5, MaxIndex}, 1, MaxLen)}
    \cup {PyList("int", s) : s \in SeqsOf({0, 5}, 1, 1)}

ClassValues ==
    {PyStr(s) : s \in Letters}
    \cup {NdArray("str", s) : s \in SeqsOf({"A", "f", "G"}, 1, MaxLen)}
    \cup {PyList("str", s) : s \in SeqsOf({"A", "f", "G"}, 1, 1)}

\* The columns of a DataFrame in the order they are given in.
ColumnOrder == <<"latS", "lonS", "latM", "lonM", "latR", "lonR", "wind_direction",
                 "wind_speed", "dx", "dy", "tc">>

\* The rows a DataFrame is filled from: a measurement a quarter turn north
\* of the source, a source a quarter turn east of the measurement with wind
\* from the east, and source and measurement in one place with no wind.
RowChoices ==
    { [latS |-> 0, lonS |-> 0, latM |-> 90, lonM |-> 0, latR |-> 0, lonR |-> 0,
       wind_direction |-> 0, wind_speed |-> 1, dx |-> 5, dy |-> -7, tc |-> Float(100, 1)],
      [latS |-> 0, lonS |-> 90, latM |-> 0, lonM |-> 0, latR |-> 0, lonR |-> 0,
       wind_direction |-> 90, wind_speed |-> 2, dx |-> -3, dy |-> 4, tc |-> Float(200, 1)],
      [latS |-> 0, lonS |-> 0, latM |-> 0, lonM |-> 0, latR |-> 0, lonR |-> 0,
       wind_direction |-> 180, wind_speed |-> 0, dx |-> 0, dy |-> 0, tc |-> Float(0, 1)] }

\* The sets of columns a DataFrame is given with: any of dx, dy, tc,
\* wind_speed, wind_direction, and the six coordinates all there, all but
\* one, or none.
ColumnSets ==
    {other \cup coord :
        other \in SUBSET {"dx", "dy", "tc", "wind_speed", "wind_direction"},
        coord \in {CoordinateColumns, {}} \cup {CoordinateColumns \ {c} : c \in CoordinateColumns}}

\* The sequence s without the entries outside S.
RECURSIVE Filter(_, _)
Filter(s, S) ==
    IF s = <<>> THEN <<>>
    ELSE IF Head(s) \in S THEN <<Head(s)>> \o Filter(Tail(s), S)
    ELSE Filter(Tail(s), S)

\* pandas.DataFrame(data = data) with the columns cs and the rows rows.
MakeFrame(cs, rows) ==
    DataFrame(Filter(ColumnOrder, cs), [c \in cs |-> [i \in 1..NRows |-> rows[i][c]]])

Frames == {MakeFrame(cs, rows) : cs \in ColumnSets, rows \in [1..NRows -> RowChoices]}

\* The values of the keywords dispersion_constants, mode, molecules and
\* molecular_mass of Plume(...); None when the keyword is not given.
TableChoices == {None, PyTable(<< <<100, 200>>, <<300, 400>> >>)}
ModeChoices == {None, PyStr("nogepa"), PyStr("NOGEPA")}
MoleculeChoices == {None, PyList("str", <<>>), PyList("str", <<"no">>),
                    PyList("str", <<"no", "xyz">>), PyList("str", <<"ch4", "no">>)}
MassChoices == {None, PyList("int", <<123, 456>>)}

\* The values of the attributes of a Source: a measurement a quarter turn
\* north of the source, or a source a quarter turn east of the reference.
SourceChoices ==
    { [f \in SourceFields |->
          PyInt(CASE f = "latM" -> 90 [] f = "dlatM" -> 6371 [] f = "dx" -> 5
                  [] f = "dy" -> -7 [] OTHER -> 0)],
      [f \in SourceFields |->
          PyInt(CASE f = "lonS" -> 90 [] f = "dlonS" -> 12 [] f = "dx" -> -3
                  [] f = "dy" -> 4 [] f = "wind_direction" -> 90 [] OTHER -> 0)] }

\* Source(...) with the keywords given: an attribute without keyword is None.
Sources == {[f \in SourceFields |-> IF f \in given THEN vals[f] ELSE None] :
               given \in SUBSET GeometryFields, vals \in SourceChoices}

\* What calculate_sigma_y_z passes on, and what calculate_concentration
\* passes on besides the molecular mass.
SpreadInputs == {"dx", "z0", "wind_speed", "stability_index", "tc",
                 "dispersion_constants", "offset_sigma_z"}
ConcentrationInputs == {"qs", "wind_speed", "sigma_y", "sigma_z", "dy", "zr", "hs", "hm"}

\* The values of the attributes of a Source the stages are run on: one with
\* wind and a plume of some width, one downwind of the measurement with no
\* wind and no width.
StageChoices ==
    { [f \in SourceFields |->
          CASE f = "dispersion_constants" -> PyTable(nogepa_table)
            [] f = "stability_index" -> PyInt(2)
            [] f = "dx" -> PyInt(5)    [] f = "dy" -> PyInt(-7)
            [] f = "z0" -> PyInt(1)    [] f = "wind_speed" -> PyInt(2)
            [] f = "tc" -> PyInt(100)  [] f = "sigma_y" -> PyInt(3)
            [] f = "sigma_z" -> PyInt(4) [] f = "qs" -> PyInt(1)
            [] f = "zr" -> PyInt(1)    [] f = "hs" -> PyInt(2)
            [] f = "hm" -> PyInt(10)   [] f = "molecular_mass" -> PyInt(30)
            [] OTHER -> PyInt(0)],
      [f \in SourceFields |->
          CASE f = "dispersion_constants" -> PyTable(nogepa_table)
            [] f = "stability_index" -> PyInt(5)
            [] f = "dx" -> PyInt(-3)   [] f = "dy" -> PyInt(4)
            [] f = "z0" -> PyInt(1)    [] f = "tc" -> PyInt(-1)
            [] f = "sigma_z" -> PyInt(4) [] f = "qs" -> PyInt(1)
            [] f = "hm" -> PyInt(10)   [] f = "molecular_mass" -> PyInt(16)
            [] OTHER -> PyInt(0)] }

\* Source(...) with every keyword but some of those one of the stages
\* passes on.
StageSources ==
    {[f \in SourceFields |-> IF f \in missing THEN None ELSE vals[f]] :
        missing \in (SUBSET SpreadInputs) \cup (SUBSET ConcentrationInputs),
        vals \in StageChoices}

\* ndarrays of ints, and of the same numbers as floats.
IntArrays(S, lo, hi) == {NdArray("int", s) : s \in SeqsOf(S, lo, hi)}
FloatArrays(S, lo, hi) ==
    {NdArray("float", [i \in DOMAIN s |-> Float(s[i], 1)]) : s \in SeqsOf(S, lo, hi)}

\* x and y can be operands of one element-wise operation.
SameShape(x, y) == IsNumber(x) \/ IsNumber(y) \/ Len(x.v) = Len(y.v)

Call(fn, args) == [fn |-> fn, args |-> args]

\* calculate_tc(dx, wind_speed): numbers and arrays, with and without wind.
TcCalls ==
    {c \in {Call("calculate_tc", [dx |-> dx, wind_speed |-> w]) :
                dx \in {PyInt(0), PyInt(5)} \cup IntArrays({0, 5}, 1, MaxLen),
                w \in {PyInt(0), PyInt(2)} \cup IntArrays({0, 2}, 1, MaxLen)} :
        SameShape(c.args.dx, c.args.wind_speed)}

\* The least travel times tried: the default, one some travel time equals,
\* and half a second.
TcMinima == {PyInt(0), PyInt(100), PyFloat(Float(1, 2))}

\* calculate_sigma(dx, z0, tc, dispersion_constants, stability_index,
\* tc_minimum = ..., offset_sigma_z = ...): dx and tc numbers or arrays, of
\* ints or floats, upwind (below zero) and downwind.
SigmaCalls ==
    {c \in {Call("calculate_sigma",
                 [dx |-> dx, z0 |-> PyInt(1), tc |-> tc,
                  dispersion_constants |-> PyTable(nogepa_table),
                  stability_index |-> si, tc_minimum |-> m,
                  offset_sigma_z |-> PyInt(0)]) :
                dx \in {PyInt(-3), PyInt(5)} \cup IntArrays({-3, 0, 5}, 1, MaxLen)
                        \cup FloatArrays({-3, 0, 5}, 1, MaxLen),
                tc \in {PyInt(-1), PyInt(100)} \cup IntArrays({-1, 100}, 1, MaxLen)
                        \cup FloatArrays({-1, 100}, 1, MaxLen),
                si \in {PyInt(0), PyInt(5)} \cup IntArrays({0, 5}, 1, MaxLen),
                m \in TcMinima} :
        /\ SameShape(c.args.dx, c.args.tc)
        /\ SameShape(c.args.dx, c.args.stability_index)
        /\ SameShape(c.args.tc, c.args.stability_index)}

\* calculate_concentration(qs, wind_speed, sigma_y, sigma_z, dy, zr, hs, hm,
\* molecular_mass): numbers and arrays, to either side of the plume axis,
\* with and without wind and width.
ConcentrationCalls ==
    {Call("calculate_concentration",
          [qs |-> PyInt(qs), wind_speed |-> w, sigma_y |-> sy, sigma_z |-> PyInt(sz),
           dy |-> dy, zr |-> PyInt(1), hs |-> PyInt(2), hm |-> PyInt(10),
           molecular_mass |-> PyInt(30)]) :
        qs \in {0, 1},
        w \in {PyInt(0), PyInt(2)} \cup IntArrays({0, 2}, MaxLen, MaxLen),
        sy \in {PyInt(0), PyInt(3)} \cup IntArrays({0, 3}, MaxLen, MaxLen),
        sz \in {0, 4},
        dy \in {PyInt(-7), PyInt(0), PyInt(4)} \cup IntArrays({-7, 4}, MaxLen, MaxLen)}

\* Longest list of classes converted in one call.
MaxClasses == 3

\* stability_class2index(stability_class): lists and ndarrays of two valid
\* and two invalid entries.
Class2IndexCalls ==
    {Call("stability_class2index", [stability_class |-> x]) :
        x \in {NdArray("str", s) : s \in SeqsOf({"A", "f", "G", ""}, 1, MaxClasses)}
              \cup {PyList("str", s) : s \in SeqsOf({"A", "f", "G", ""}, 1, MaxClasses)}}

\* The thresholds tried, in kilometres: none, the default, a quarter turn
\* of the earth exactly, and one no offset reaches.
NeverExceeded == 30000
Thresholds == {0, warn_distance_above_default, GPC_latlon2dxdy_lat_conversion_factor,
               NeverExceeded}

\* latlon2dlatdlon(lat, lon, latR, lonR, warn_distance_above_meter = ...):
\* points at the reference and a quarter turn north or east of it.
LatlonCalls ==
    {Call("latlon2dlatdlon",
          [lat |-> NdArray("int", [i \in DOMAIN p |-> p[i][1]]),
           lon |-> NdArray("int", [i \in DOMAIN p |-> p[i][2]]),
           latR |-> NdArray("int", [i \in DOMAIN p |-> 0]),
           lonR |-> NdArray("int", [i \in DOMAIN p |-> 0]),
           warn_distance_above_meter |-> PyInt(thr)]) :
        p \in SeqsOf({<<0, 0>>, <<90, 0>>, <<0, 90>>}, 1, MaxLen),
        thr \in Thresholds}

\* dlatdlon2dxdy(dlatS, dlonS, dlatM, dlonM, wind_direction,
\* warn_distance_above_meter = ...): source and measurement in one place,
\* a quarter turn apart, and 50 km apart, with wind from the north or east.
DxdyCalls ==
    {Call("dlatdlon2dxdy",
          [dlatS |-> NdArray("int", [i \in DOMAIN p |-> p[i][1]]),
           dlonS |-> NdArray("int", [i \in DOMAIN p |-> p[i][2]]),
           dlatM |-> NdArray("int", [i \in DOMAIN p |-> p[i][3]]),
           dlonM |-> NdArray("int", [i \in DOMAIN p |-> 0]),
           wind_direction |-> NdArray("int", [i \in DOMAIN p |-> p[i][4]]),
           warn_distance_above_meter |-> PyInt(thr)]) :
        p \in SeqsOf({<<0, 0, 0, 0>>, <<6371, 0, 0, 90>>, <<30, 40, 0, 0>>,
                      <<0, 0, 6371, 90>>}, 1, MaxLen),
        thr \in Thresholds}

\* The cells of a parameter column of a sheet: empty, or one of two values.
Cells == {NaN, Float(5, 1), Float(11, 1)}

\* The sheet "dynamic parameters" with a time stamp in every row and the
\* parameter columns r and w.
DynamicSheet(r, w) ==
    DataFrame(<<"datetime", "Roughness", "Windspeed">>,
              [c \in {"datetime", "Roughness", "Windspeed"} |->
                  IF c = "datetime" THEN [i \in DOMAIN r |-> Float(i, 1)]
                  ELSE IF c = "Roughness" THEN r ELSE w])

\* The sheet "static parameters": one parameter of three has no value.
StaticSheet == << <<"Device", Float(7, 1)>>, <<"Operator", NaN>>,
                  <<"Stack height", Float(5, 1)>> >>

\* The Excel file at paf, if there is one, with its two sheets.
Workbook(exists, dynamic) ==
    [exists |-> exists,
     sheets |-> [n \in {"static parameters", "dynamic parameters"} |->
                    IF n = "static parameters" THEN StaticSheet ELSE dynamic]]

\* import_measurement_parameters_excel(paf, static_parameters = ...,
\* dynamic_parameters = ...): every sheet of up to MaxRows rows with both
\* arguments left True, and one sheet with every choice of the arguments, a
\* file that is not there and a sheet name the file has not among them.
ExcelCalls ==
    {Call("import_measurement_parameters_excel",
          [paf |-> Workbook(TRUE, DynamicSheet(rw[1], rw[2])),
           static_parameters |-> PyBool(TRUE), dynamic_parameters |-> PyBool(TRUE)]) :
        rw \in UNION {[1..2 -> [1..n -> Cells]] : n \in 1..MaxRows}}
    \cup
    {Call("import_measurement_parameters_excel",
          [paf |-> Workbook(e, DynamicSheet(<<NaN, Float(5, 1)>>, <<Float(11, 1), NaN>>)),
           static_parameters |-> s, dynamic_parameters |-> d]) :
        e \in BOOLEAN,
        s \in {PyBool(TRUE), PyBool(FALSE), PyStr("static parameters")},
        d \in {PyBool(TRUE), PyBool(FALSE), PyStr("dynamic parameters"), PyStr("nowhere")}}

\* Longest list of molecules a Plume comes to hold.
MaxMolecules == 3

\* The DataFrames import_data reads: the wind speed, with and without a
\* column of measurements of one molecule.
ImportedFrames ==
    {DataFrame(<<"wind_speed">> \o ms,
               [c \in {"wind_speed"} \cup {ms[i] : i \in DOMAIN ms} |-> [i \in 1..NRows |-> 1]]) :
        ms \in {<<>>, <<"ch4">>}}

\* The attributes of the object an operation is called on.
Attributes ==
    [df |-> df, dispersion_constants |-> dispersion_constants, mode |-> mode,
     molecules |-> molecules, molecular_properties |-> molecular_properties,
     molecular_mass |-> molecular_mass, src |-> src]

NoSource == [f \in SourceFields |-> None]

\* ------------------------------------------------------- idle parts

ConvIdle == conv_in = None /\ conv_out = Ret(None) /\ conv_ops = <<>>

StabIdle == /\ cls = "none" /\ phase = "none"
            /\ _stability_index = Unset /\ _stability_class = Unset

PlumeIdle == /\ df = None /\ dispersion_constants = None /\ mode = None
             /\ molecules = None /\ molecular_properties = None
             /\ molecular_mass = None

SourceIdle == src = NoSource

NoCall == [fn |-> "none", args |-> <<>>]

CallIdle == /\ call_args = NoCall /\ call_out = Ret(None)
            /\ stages = <<>> /\ named = "" /\ message = NoMessage

\* -------------------------------------------------- conversions: actions

\* Longest chain of conversion calls.
MaxCalls == 2

ConvArg == IF conv_ops = <<>> THEN conv_in ELSE conv_out.val

CallIndex2Class ==
    /\ scen = "conv"
    /\ Len(conv_ops) < MaxCalls
    /\ conv_out.exc = ""
    /\ ConvArg.dtype = "int"
    /\ conv_out' = stability_index2class(ConvArg)
    /\ conv_ops' = Append(conv_ops, "stability_index2class")
    /\ last' = "stability_index2class"
    /\ raised' = conv_out'.exc
    /\ UNCHANGED <<scen, callVars, conv_in, stabVars, plumeVars, srcVars, warnings, before>>

CallClass2Index ==
    /\ scen = "conv"
    /\ Len(conv_ops) < MaxCalls
    /\ conv_out.exc = ""
    /\ ConvArg.dtype = "str"
    /\ conv_out' = stability_class2index(ConvArg)
    /\ conv_ops' = Append(conv_ops, "stability_class2index")
    /\ last' = "stability_class2index"
    /\ raised' = conv_out'.exc
    /\ UNCHANGED <<scen, callVars, conv_in, stabVars, plumeVars, srcVars, warnings, before>>

\* ------------------------------------- stability properties: the setters

\* Source.stability_index / Plume.stability_index setter (the two are the
\* same code): the attribute is assigned, then the class is converted.
stability_index_setter(o, value) ==
    LET r == stability_index2class(value)
    IN  [index |-> value,
         class |-> IF r.exc = "" THEN r.val ELSE o.class,
         exc |-> r.exc]

\* Source.stability_class / Plume.stability_class setter.
stability_class_setter(o, value) ==
    LET r == stability_class2index(value)
    IN  [index |-> IF r.exc = "" THEN r.val ELSE o.index,
         class |-> value,
         exc |-> r.exc]

\* The keyword sets a constructor is called with: absent is Unset here.
KwArgs == {[stability_index |-> i, stability_class |-> c] :
              i \in IndexValues \cup {Unset}, c \in ClassValues \cup {Unset}}

\* Source.__init__, lines 75-80: both attributes start as None, then each
\* keyword given is assigned through its setter, the index first.
Source_init(kw) ==
    LET o0 == [index |-> None, class |-> None, exc |-> ""]
        o1 == IF kw.stability_index # Unset
              THEN stability_index_setter(o0, kw.stability_index) ELSE o0
    IN  IF o1.exc # "" THEN o1
        ELSE IF kw.stability_class # Unset
             THEN stability_class_setter(o1, kw.stability_class) ELSE o1

Plume_init_both(kw) ==
    LET o0 == [index |-> Unset, class |-> Unset, exc |-> ""]
        o1 == IF kw.stability_index # Unset
              THEN stability_index_setter(o0, kw.stability_index) ELSE o0
    IN  IF o1.exc # "" THEN o1
        ELSE IF kw.stability_class # Unset
             THEN stability_class_setter(o1, kw.stability_class) ELSE o1

\* Plume.__init__, lines 129-132: stability_index if given, else
\* stability_class if given; with neither the attributes do not exist.
Plume_init(kw) ==
    LET o0 == [index |-> Unset, class |-> Unset, exc |-> ""]
    IN  IF kw.stability_index # Unset
        THEN stability_index_setter(o0, kw.stability_index)
        ELSE IF kw.stability_class # Unset
             THEN stability_class_setter(o0, kw.stability_class) ELSE o0

Self == [index |-> _stability_index, class |-> _stability_class, exc |-> ""]

\* Source(...) or Plume(...): an exception in __init__ leaves no object.
Construct ==
    /\ scen = "stab"
    /\ phase = "new"
    /\ \E c \in {"Source", "Plume"}, kw \in KwArgs :
         LET o == IF c = "Source" THEN Source_init(kw) ELSE Plume_init(kw)
         IN  /\ cls' = c
             /\ _stability_index' = o.index
             /\ _stability_class' = o.class
             /\ raised' = o.exc
             /\ phase' = IF o.exc = "" THEN "live" ELSE "dead"
             /\ call_args' = [fn |-> "__init__", args |-> kw]
    /\ last' = "__init__"
    /\ UNCHANGED <<scen, call_out, stages, named, message, convVars, plumeVars, srcVars, warnings,
                   before>>

\* obj.stability_index = value
SetStabilityIndex ==
    /\ scen = "stab"
    /\ phase = "live"
    /\ \E value \in IndexValues :
         LET o == stability_index_setter(Self, value)
         IN  /\ _stability_index' = o.index
             /\ _stability_class' = o.class
             /\ raised' = o.exc
             /\ call_args' = [fn |-> "stability_index", args |-> [value |-> value]]
    /\ last' = "stability_index"
    /\ UNCHANGED <<scen, call_out, stages, named, message, convVars, cls, phase, plumeVars, srcVars,
                   warnings, before>>

\* obj.stability_class = value
SetStabilityClass ==
    /\ scen = "stab"
    /\ phase = "live"
    /\ \E value \in ClassValues :
         LET o == stability_class_setter(Self, value)
         IN  /\ _stability_index' = o.index
             /\ _stability_class' = o.class
             /\ raised' = o.exc
             /\ call_args' = [fn |-> "stability_class", args |-> [value |-> value]]
    /\ last' = "stability_class"
    /\ UNCHANGED <<scen, call_out, stages, named, message, convVars, cls, phase, plumeVars, srcVars,
                   warnings, before>>

\* -------------------------------------------------------- Plume: actions

\* P.calculate_concentration_prepare_dxdy()
PrepareDxdy ==
    /\ scen = "plume"
    /\ LET r == calculate_concentration_prepare_dxdy(df)
       IN  /\ df' = r.df
           /\ raised' = r.exc
           /\ warnings' = r.warnings
    /\ last' = "calculate_concentration_prepare_dxdy"
    /\ before' = Attributes
    /\ UNCHANGED <<scen, callVars, convVars, stabVars, attrVars, srcVars>>

\* P.calculate_concentration_prepare_tc()
PrepareTc ==
    /\ scen = "plume"
    /\ LET r == calculate_concentration_prepare_tc(df)
       IN  /\ df' = r.df
           /\ raised' = r.exc
    /\ warnings' = <<>>
    /\ last' = "calculate_concentration_prepare_tc"
    /\ before' = Attributes
    /\ UNCHANGED <<scen, callVars, convVars, stabVars, attrVars, srcVars>>

\* P.calculate_concentration_prepare_dispersion_constants()
PrepareDispersionConstants ==
    /\ scen = "plume"
    /\ LET r == calculate_concentration_prepare_dispersion_constants(dispersion_constants, mode)
       IN  /\ dispersion_constants' = r.dispersion_constants
           /\ raised' = r.exc
    /\ warnings' = <<>>
    /\ last' = "calculate_concentration_prepare_dispersion_constants"
    /\ before' = Attributes
    /\ UNCHANGED <<scen, callVars, convVars, stabVars, frameVars, mode, molecules,
                   molecular_properties, molecular_mass, srcVars>>

\* P.calculate_concentration_get_molecular_properties()
GetMolecularProperties ==
    /\ scen = "plume"
    /\ LET r == calculate_concentration_get_molecular_properties(
                    molecules, molecular_properties, molecular_mass)
       IN  /\ molecular_properties' = r.molecular_properties
           /\ molecular_mass' = r.molecular_mass
           /\ raised' = r.exc
    /\ warnings' = <<>>
    /\ last' = "calculate_concentration_get_molecular_properties"
    /\ before' = Attributes
    /\ UNCHANGED <<scen, callVars, convVars, stabVars, frameVars, dispersion_constants, mode,
                   molecules, srcVars>>

\* P.import_data()
ImportData ==
    /\ scen = "plume"
    /\ \E merged \in ImportedFrames :
         LET r == Plume_import_data(molecules, merged)
         IN  /\ r.molecules # None => Len(r.molecules.v) <= MaxMolecules
             /\ df' = r.df
             /\ molecules' = r.molecules
    /\ raised' = ""
    /\ warnings' = <<>>
    /\ last' = "import_data"
    /\ before' = Attributes
    /\ UNCHANGED <<scen, callVars, convVars, stabVars, dispersion_constants, mode,
                   molecular_properties, molecular_mass, srcVars>>

\* P.calculate_concentration()
CalculateConcentration ==
    /\ scen = "plume"
    /\ LET r == Plume_calculate_concentration(Attributes)
       IN  /\ df' = r.a.df
           /\ dispersion_constants' = r.a.dispersion_constants
           /\ molecular_properties' = r.a.molecular_properties
           /\ molecular_mass' = r.a.molecular_mass
           /\ stages' = r.stages
           /\ raised' = r.exc
    /\ warnings' = <<>>
    /\ last' = "calculate_concentration"
    /\ before' = Attributes
    /\ UNCHANGED <<scen, call_args, call_out, named, message, convVars, stabVars, mode, molecules,
                   srcVars>>

\* ------------------------------------------------------- Source: actions

\* S.calculate_dxdy()
CalculateDxdy ==
    /\ scen = "source"
    /\ LET r == Source_calculate_dxdy(src)
       IN  /\ src' = r.s
           /\ raised' = r.exc
           /\ warnings' = r.warnings
    /\ last' = "calculate_dxdy"
    /\ before' = Attributes
    /\ UNCHANGED <<scen, callVars, convVars, stabVars, plumeVars>>

\* S.calculate_sigma_y_z()
CalculateSigmaYZ ==
    /\ scen = "source"
    /\ LET r == Source_calculate_sigma_y_z(src)
       IN  /\ src' = r.s
           /\ raised' = r.exc
           /\ named' = r.named
    /\ warnings' = <<>>
    /\ last' = "calculate_sigma_y_z"
    /\ before' = Attributes
    /\ UNCHANGED <<scen, call_args, call_out, stages, message, convVars, stabVars, plumeVars>>

\* S.calculate_concentration()
SourceCalculateConcentration ==
    /\ scen = "source"
    /\ LET r == Source_calculate_concentration(src)
       IN  /\ src' = r.s
           /\ raised' = r.exc
           /\ named' = r.named
           /\ call_out' = IF r.exc # "" THEN Raise(r.exc) ELSE Ret(r.val)
    /\ warnings' = <<>>
    /\ last' = "Source.calculate_concentration"
    /\ before' = Attributes
    /\ UNCHANGED <<scen, call_args, stages, message, convVars, stabVars, plumeVars>>

\* ---------------------------------------------- GPFunctions: actions

PyTuple(t) == [dtype |-> "tuple", kind |-> "tuple", v |-> t]

\* The call of fn is about to be made.
Calling(fn) == scen = "call" /\ last = "none" /\ call_args.fn = fn

\* GPF.calculate_tc(dx, wind_speed)
CallCalculateTc ==
    /\ Calling("calculate_tc")
    /\ call_out' = GPF_calculate_tc(call_args.args.dx, call_args.args.wind_speed)
    /\ raised' = call_out'.exc
    /\ warnings' = <<>>
    /\ last' = "calculate_tc"
    /\ before' = call_args
    /\ UNCHANGED <<scen, call_args, stages, named, message, convVars, stabVars, plumeVars, srcVars>>

\* sigma_y, sigma_z = GPF.calculate_sigma(dx, z0, tc, dispersion_constants,
\* stability_index, offset_sigma_z = offset_sigma_z): dx and tc are the
\* caller's objects, which the function assigns into.
CallCalculateSigma ==
    /\ Calling("calculate_sigma")
    /\ LET a == call_args.args
           r == calculate_sigma(a.dx, a.z0, a.tc, a.dispersion_constants,
                                a.stability_index, a.tc_minimum, a.offset_sigma_z)
       IN  /\ call_out' = IF r.exc # "" THEN Raise(r.exc)
                          ELSE Ret(PyTuple(<<r.sigma_y, r.sigma_z>>))
           /\ call_args' = [call_args EXCEPT !.args.dx = r.dx, !.args.tc = r.tc]
           /\ raised' = r.exc
    /\ warnings' = <<>>
    /\ last' = "calculate_sigma"
    /\ before' = call_args
    /\ UNCHANGED <<scen, stages, named, message, convVars, stabVars, plumeVars, srcVars>>

\* GPF.calculate_concentration(qs, wind_speed, sigma_y, sigma_z, dy, zr, hs,
\* hm, molecular_mass)
CallCalculateConcentration ==
    /\ Calling("calculate_concentration")
    /\ LET a == call_args.args
       IN  call_out' = calculate_concentration(a.qs, a.wind_speed, a.sigma_y, a.sigma_z,
                                               a.dy, a.zr, a.hs, a.hm, a.molecular_mass)
    /\ raised' = call_out'.exc
    /\ warnings' = <<>>
    /\ last' = "calculate_concentration"
    /\ before' = call_args
    /\ UNCHANGED <<scen, call_args, stages, named, message, convVars, stabVars, plumeVars, srcVars>>

\* GPF.stability_class2index(stability_class)
CallStabilityClass2Index ==
    /\ Calling("stability_class2index")
    /\ call_out' = stability_class2index(call_args.args.stability_class)
    /\ message' = stability_class2index_message(call_args.args.stability_class)
    /\ raised' = call_out'.exc
    /\ warnings' = <<>>
    /\ last' = "GPF.stability_class2index"
    /\ before' = call_args
    /\ UNCHANGED <<scen, call_args, stages, named, convVars, stabVars, plumeVars, srcVars>>

\* dlat, dlon = GPF.latlon2dlatdlon(lat, lon, latR, lonR,
\* warn_distance_above_meter = ...)
CallLatlon2dlatdlon ==
    /\ Calling("latlon2dlatdlon")
    /\ LET a == call_args.args
           r == latlon2dlatdlon(a.lat.v, a.lon.v, a.latR.v, a.lonR.v,
                                a.warn_distance_above_meter.v)
       IN  /\ call_out' = Ret(PyTuple(<<NdArray("int", r.dlat), NdArray("int", r.dlon)>>))
           /\ warnings' = Warned("latlon2dlatdlon", r.warn)
    /\ raised' = ""
    /\ last' = "latlon2dlatdlon"
    /\ before' = call_args
    /\ UNCHANGED <<scen, call_args, stages, named, message, convVars, stabVars, plumeVars, srcVars>>

\* dx, dy = GPF.dlatdlon2dxdy(dlatS, dlonS, dlatM, dlonM, wind_direction,
\* warn_distance_above_meter = ...)
CallDlatdlon2dxdy ==
    /\ Calling("dlatdlon2dxdy")
    /\ LET a == call_args.args
           r == dlatdlon2dxdy(a.dlatS.v, a.dlonS.v, a.dlatM.v, a.dlonM.v,
                              a.wind_direction.v, a.warn_distance_above_meter.v)
       IN  /\ call_out' = Ret(PyTuple(<<NdArray("int", r.dx), NdArray("int", r.dy)>>))
           /\ warnings' = Warned("dlatdlon2dxdy", r.warn)
    /\ raised' = ""
    /\ last' = "dlatdlon2dxdy"
    /\ before' = call_args
    /\ UNCHANGED <<scen, call_args, stages, named, message, convVars, stabVars, plumeVars, srcVars>>

\* df_static, df_dynamic = import_measurement_parameters_excel(paf, ...)
CallImportExcel ==
    /\ Calling("import_measurement_parameters_excel")
    /\ LET a == call_args.args
           r == import_measurement_parameters_excel(a.paf, a.static_parameters,
                                                    a.dynamic_parameters)
       IN  /\ call_out' = IF r.exc # "" THEN Raise(r.exc) ELSE Ret(PyTuple(r.val))
           /\ warnings' = Warned("import_measurement_parameters_excel", r.warned)
           /\ raised' = r.exc
    /\ last' = "import_measurement_parameters_excel"
    /\ before' = call_args
    /\ UNCHANGED <<scen, call_args, stages, named, message, convVars, stabVars, plumeVars, srcVars>>

\* ------------------------------------------------------- specification

InitConv ==
    /\ scen = "conv"
    /\ conv_in \in IndexInputs \cup ClassInputs
    /\ conv_out = Ret(None)
    /\ conv_ops = <<>>
    /\ StabIdle /\ PlumeIdle /\ SourceIdle /\ CallIdle

InitStab ==
    /\ scen = "stab"
    /\ cls = "none"
    /\ phase = "new"
    /\ _stability_index = Unset
    /\ _stability_class = Unset
    /\ ConvIdle /\ PlumeIdle /\ SourceIdle /\ CallIdle

\* Plume(df = ..., dispersion_constants = ..., mode = ..., molecules = ...,
\* molecular_mass = ...): every DataFrame with no other keyword or with all
\* of them, and every choice of the other keywords with no DataFrame or with
\* a DataFrame of all columns.
InitPlume ==
    /\ scen = "plume"
    /\ molecular_properties = None
    /\ \/ /\ df \in Frames
          /\ \/ /\ dispersion_constants = None /\ mode = None
                /\ molecules = None /\ molecular_mass = None
             \/ /\ dispersion_constants = None /\ mode = PyStr("nogepa")
                /\ molecules = PyList("str", <<"no">>) /\ molecular_mass = None
       \/ /\ df \in {None} \cup
                {MakeFrame(CoordinateColumns \cup {"dx", "dy", "tc", "wind_speed", "wind_direction"},
                           rows) : rows \in [1..NRows -> RowChoices]}
          /\ dispersion_constants \in TableChoices
          /\ mode \in ModeChoices
          /\ molecules \in MoleculeChoices
          /\ molecular_mass \in MassChoices
    /\ ConvIdle /\ StabIdle /\ SourceIdle /\ CallIdle

InitSource ==
    /\ scen = "source"
    /\ \/ src \in Sources
       \/ src \in StageSources
    /\ ConvIdle /\ StabIdle /\ PlumeIdle /\ CallIdle

InitCall ==
    /\ scen = "call"
    /\ \/ call_args \in TcCalls
       \/ call_args \in SigmaCalls
       \/ call_args \in ConcentrationCalls
       \/ call_args \in LatlonCalls
       \/ call_args \in DxdyCalls
       \/ call_args \in ExcelCalls
       \/ call_args \in Class2IndexCalls
    /\ call_out = Ret(None)
    /\ stages = <<>>
    /\ named = ""
    /\ message = NoMessage
    /\ ConvIdle /\ StabIdle /\ PlumeIdle /\ SourceIdle

Init ==
    /\ last = "none"
    /\ raised = ""
    /\ warnings = <<>>
    /\ before = None
    /\ \/ InitConv
       \/ InitStab
       \/ InitPlume
       \/ InitSource
       \/ InitCall

Next ==
    \/ CallIndex2Class
    \/ CallClass2Index
    \/ Construct
    \/ SetStabilityIndex
    \/ SetStabilityClass
    \/ PrepareDxdy
    \/ PrepareTc
    \/ PrepareDispersionConstants
    \/ GetMolecularProperties
    \/ CalculateConcentration
    \/ ImportData
    \/ CalculateDxdy
    \/ CalculateSigmaYZ
    \/ SourceCalculateConcentration
    \/ CallCalculateTc
    \/ CallCalculateSigma
    \/ CallCalculateConcentration
    \/ CallLatlon2dlatdlon
    \/ CallDlatdlon2dxdy
    \/ CallImportExcel
    \/ CallStabilityClass2Index

Spec == Init /\ [][Next]_vars

\* --------------------------------------------------------------- claims

\* The fixed mapping A=0, B=1, ..., F=5 of the specification, in either case.
ValidLetters == {"A", "B", "C", "D", "E", "F", "a", "b", "c", "d", "e", "f"}

LetterIndex(s) ==
    CASE s \in {"A", "a"} -> 0 [] s \in {"B", "b"} -> 1 [] s \in {"C", "c"} -> 2
      [] s \in {"D", "d"} -> 3 [] s \in {"E", "e"} -> 4 [] s \in {"F", "f"} -> 5
      [] OTHER -> -1

AllInRange(x) == \A i \in DOMAIN Elems(x) : Elems(x)[i] \in 0..5
AllLetters(x) == \A i \in DOMAIN Elems(x) : Elems(x)[i] \in ValidLetters

\* A stored index and a stored class agree: both are None (or both were never
\* assigned), or they have the same number of entries and every class entry
\* is the letter of the index entry at its place.
Agree(index, class) ==
    \/ index = None /\ class = None
    \/ index = Unset /\ class = Unset
    \/ /\ index.dtype = "int"
       /\ class.dtype = "str"
       /\ Len(Elems(index)) = Len(Elems(class))
       /\ \A i \in DOMAIN Elems(index) : LetterIndex(Elems(class)[i]) = Elems(index)[i]
       /\ AllInRange(index)

\* C1: on a constructed Source or Plume the stored stability_index and
\* stability_class agree through the mapping A=0 ... F=5 after any sequence
\* of assignments, the raising ones included.
C1_StabilityAlwaysAgrees ==
    (scen = "stab" /\ phase = "live") => Agree(_stability_index, _stability_class)

\* C2: for a valid index i (an int in 0..5, or an ndarray of such),
\* stability_index2class(i) returns and stability_class2index of what it
\* returned returns a value equal to i.
C2_IndexRoundTrip ==
    (/\ scen = "conv"
     /\ conv_in.dtype = "int"
     /\ conv_in.kind \in {"int", "ndarray"}
     /\ AllInRange(conv_in))
    => /\ conv_ops = <<"stability_index2class">> => conv_out.exc = ""
       /\ conv_ops = <<"stability_index2class", "stability_class2index">>
            => conv_out.exc = "" /\ NumpyEq(conv_out.val, conv_in)

C2_Witness ==
    /\ conv_in = PyInt(5)
    /\ conv_ops = <<"stability_index2class", "stability_class2index">>
    /\ conv_out.exc = ""

\* C3: for a class letter c of A..F in either case, stability_class2index(c)
\* returns and stability_index2class of what it returned returns a value
\* equal to the upper-case form of c.
C3_ClassRoundTrip ==
    (/\ scen = "conv"
     /\ conv_in.kind = "str"
     /\ conv_in.v \in ValidLetters)
    => /\ conv_ops = <<"stability_class2index">> => conv_out.exc = ""
       /\ conv_ops = <<"stability_class2index", "stability_index2class">>
            => conv_out.exc = "" /\ NumpyEq(conv_out.val, PyStr(Upper(conv_in.v)))

C3_Witness ==
    /\ conv_in = PyStr("e")
    /\ conv_ops = <<"stability_class2index", "stability_index2class">>
    /\ conv_out.exc = ""
    /\ Elems(conv_out.val) = <<"E">>

\* C4: stability_index2class raises IndexError and returns nothing when an
\* int, or an entry of an array or list, is outside 0..5, and does not fail
\* when every entry is in 0..5.
C4_IndexRangeError ==
    (scen = "conv" /\ conv_ops = <<"stability_index2class">>)
    => IF AllInRange(conv_in)
       THEN conv_out.exc = ""
       ELSE conv_out = Raise("IndexError")

\* C5: stability_class2index raises ValueError and returns nothing when a
\* str, or an entry of a list or array, is not one of A..F, a..f; otherwise
\* it returns the index of every entry.
C5_ClassValueError ==
    (scen = "conv" /\ conv_ops = <<"stability_class2index">>)
    => IF AllLetters(conv_in)
       THEN conv_out = Ret(NdArray("int",
                [i \in DOMAIN Elems(conv_in) |-> LetterIndex(Elems(conv_in)[i])]))
       ELSE conv_out = Raise("ValueError")

C5_Witness ==
    /\ conv_ops = <<"stability_class2index">>
    /\ conv_in = PyList("str", <<"b", "F">>)
    /\ conv_out = Ret(NdArray("int", <<1, 5>>))

\* The wind-aligned offsets of every row of the DataFrame d, as the
\* docstrings of latlon2dlatdlon and dlatdlon2dxdy define them.
FrameOffsets(d) ==
    LET M == latlon2dlatdlon(Column(d, "latM"), Column(d, "lonM"),
                 Column(d, "latR"), Column(d, "lonR"), warn_distance_above_default)
        S == latlon2dlatdlon(Column(d, "latS"), Column(d, "lonS"),
                 Column(d, "latR"), Column(d, "lonR"), warn_distance_above_default)
    IN  dlatdlon2dxdy(S.dlat, S.dlon, M.dlat, M.dlon, Column(d, "wind_direction"),
                      warn_distance_above_default)

HasFrame == scen = "plume" /\ before # None /\ before.df # None

C7_PrepareDxdyComputes ==
    (/\ HasFrame
     /\ last = "calculate_concentration_prepare_dxdy"
     /\ ~HasColumn(before.df, "dx") \/ ~HasColumn(before.df, "dy")
     /\ \A c \in CoordinateColumns \cup {"wind_direction"} : HasColumn(before.df, c))
    => /\ raised = ""
       /\ HasColumn(df, "dx")
       /\ HasColumn(df, "dy")
       /\ Column(df, "dx") = FrameOffsets(before.df).dx
       /\ Column(df, "dy") = FrameOffsets(before.df).dy

C9_PrepareTcComputes ==
    (HasFrame /\ last = "calculate_concentration_prepare_tc")
    => /\ (/\ ~HasColumn(before.df, "tc")
           /\ HasColumn(before.df, "dx")
           /\ HasColumn(before.df, "wind_speed"))
          => /\ raised = ""
             /\ HasColumn(df, "tc")
             /\ Column(df, "tc") = calculate_tc(Column(before.df, "dx"),
                                                Column(before.df, "wind_speed"))
       /\ HasColumn(before.df, "tc")
          => /\ raised = ""
             /\ HasColumn(df, "tc")
             /\ Column(df, "tc") = Column(before.df, "tc")

\* C10: with no dispersion_constants and mode a known preset name,
\* calculate_concentration_prepare_dispersion_constants returns and sets
\* dispersion_constants to the table of the preset (the reference table for
\* "nogepa"); with an unknown mode it fails.
C10_DispersionConstantsFromMode ==
    (/\ scen = "plume"
     /\ last = "calculate_concentration_prepare_dispersion_constants"
     /\ before.dispersion_constants = None
     /\ before.mode # None)
    => IF before.mode = PyStr("nogepa")
       THEN raised = "" /\ dispersion_constants = PyTable(nogepa_table)
       ELSE raised # "" /\ dispersion_constants = None

\* The molecule names the registry knows.
Registered(ms) == \A k \in DOMAIN ms : get_molecule_properties(ms[k]).exc = ""

StageOrder ==
    <<"calculate_concentration_prepare_dxdy",
      "calculate_concentration_prepare_tc",
      "calculate_concentration_prepare_dispersion_constants",
      "calculate_concentration_get_molecular_properties">>

\* The attributes a hold what every stage needs: offsets or the columns
\* they are computed from, a travel time or wind speed, a table or a mode
\* that has one, and molecules with masses or names the registry knows.
InputsAvailable(a) ==
    /\ a.df # None
    /\ \/ HasColumn(a.df, "dx") /\ HasColumn(a.df, "dy")
       \/ /\ ~HasColumn(a.df, "dx") /\ ~HasColumn(a.df, "dy")
          /\ \A c \in CoordinateColumns \cup {"wind_direction"} : HasColumn(a.df, c)
    /\ HasColumn(a.df, "tc") \/ HasColumn(a.df, "wind_speed")
    /\ \/ a.dispersion_constants # None
       \/ a.mode # None /\ get_dispersion_constants(a.mode).exc = ""
    /\ a.molecules # None
    /\ Len(a.molecules.v) > 0
    /\ a.molecular_mass # None \/ Registered(a.molecules.v)

\* C12: Plume.calculate_concentration enters the stages in the order
\* geometry, travel time, dispersion constants, molecular properties, a
\* stage only after the stages before it; and when the inputs of all stages
\* are available it enters all four and returns without raising.
C12_StagesRunInOrder ==
    (scen = "plume" /\ last = "calculate_concentration")
    => /\ Len(stages) <= Len(StageOrder)
       /\ stages = SubSeq(StageOrder, 1, Len(stages))
       /\ InputsAvailable(before) => raised = "" /\ stages = StageOrder

\* C13: when a field the spread stage or the concentration stage of a
\* Source requires is None, the stage raises ValueError with a message that
\* names a field that is None, and leaves every attribute, sigma_y and
\* sigma_z among them, as it was.
C13_SourceStagesFailFast ==
    /\ (/\ scen = "source"
        /\ last = "calculate_sigma_y_z"
        /\ \E f \in SpreadInputs \ {"offset_sigma_z"} : before.src[f] = None)
       => /\ raised = "ValueError"
          /\ named \in SpreadInputs
          /\ before.src[named] = None
          /\ src = before.src
    /\ (/\ scen = "source"
        /\ last = "Source.calculate_concentration"
        /\ \E f \in ConcentrationInputs : before.src[f] = None)
       => /\ raised = "ValueError"
          /\ named \in ConcentrationInputs
          /\ before.src[named] = None
          /\ src = before.src

\* Entry i of the value a call returned.
ResultEntry(val, i) == IF IsNumber(val) THEN val.v ELSE val.v[i]

\* The entries of an element-wise operation on xs.
Entries(xs) == 1..Span(xs)

\* C14: calculate_tc with wind_speed = 0, and calculate_concentration with
\* wind_speed = 0, sigma_y = 0 or sigma_z = 0, return without raising, for
\* numbers as for arrays, and every entry with such a zero is infinite or
\* not-a-number in the result.
C14_DegeneracyIsNotAnError ==
    /\ (scen = "call" /\ last = "calculate_tc")
       => LET a == before.args
              zero == {i \in Entries(<<a.dx, a.wind_speed>>) : Entry(a.wind_speed, i) = 0}
          IN  zero # {}
              => /\ raised = ""
                 /\ \A i \in zero : ResultEntry(call_out.val, i).den = 0
    /\ (scen = "call" /\ last = "calculate_concentration")
       => LET a == before.args
              zero == {i \in Entries(<<a.wind_speed, a.sigma_y, a.sigma_z, a.dy>>) :
                          \/ Entry(a.wind_speed, i) = 0
                          \/ Entry(a.sigma_y, i) = 0
                          \/ Entry(a.sigma_z, i) = 0}
          IN  zero # {}
              => /\ raised = ""
                 /\ \A i \in zero : ResultEntry(call_out.val, i).A.den = 0

\* calculate_sigma for entry i of dx and tc alone, the other arguments as
\* in the call a.
SigmaAlone(a, i) ==
    calculate_sigma(PyFloat(AsFloat(a.dx.dtype, a.dx.v[i])), a.z0,
                    IF IsNumber(a.tc) THEN a.tc
                    ELSE PyFloat(AsFloat(a.tc.dtype, a.tc.v[i])),
                    a.dispersion_constants, a.stability_index, a.tc_minimum,
                    a.offset_sigma_z)

\* C15: calculate_sigma with an array dx returns without raising; an entry
\* with dx < 0 is not-a-number afterwards in dx, in tc when tc is an array,
\* and in sigma_y and sigma_z; an entry with dx >= 0 has the sigma_y and
\* sigma_z that calculate_sigma gives for that entry alone.
C15_NegativeDxIsMasked ==
    (scen = "call" /\ last = "calculate_sigma" /\ before.args.dx.kind = "ndarray")
    => /\ raised = ""
       /\ \A i \in DOMAIN before.args.dx.v :
             IF Below(before.args.dx.dtype, before.args.dx.v[i], 0)
             THEN /\ call_args.args.dx.v[i] = NaN
                  /\ before.args.tc.kind = "ndarray" => call_args.args.tc.v[i] = NaN
                  /\ call_out.val.v[1].v[i] = SigmaNaN
                  /\ call_out.val.v[2].v[i] = SigmaNaN
             ELSE /\ call_out.val.v[1].v[i] = SigmaAlone(before.args, i).sigma_y.v
                  /\ call_out.val.v[2].v[i] = SigmaAlone(before.args, i).sigma_z.v

\* The squared distance of point i of the offsets a call returned.
Distance2(val, i) == val.v[1].v[i] * val.v[1].v[i] + val.v[2].v[i] * val.v[2].v[i]

\* The warnings of a call of fn with the threshold thr that returned val:
\* one, with the number of points farther than thr, when there are any.
AdvisoryOf(fn, val, thr) ==
    LET far == {i \in DOMAIN val.v[1].v : Distance2(val, i) > thr * thr}
    IN  IF far = {} THEN <<>> ELSE <<[fn |-> fn, points |-> Cardinality(far)]>>

\* C16: latlon2dlatdlon and dlatdlon2dxdy never raise; each warns exactly
\* when a point of its own result is strictly farther than its own
\* warn_distance_above_meter, giving the number of such points; and each
\* returns what the same call with a threshold nothing exceeds returns.
C16_DistanceWarningIsAdvisory ==
    /\ (scen = "call" /\ last = "latlon2dlatdlon")
       => LET a == before.args
              r == latlon2dlatdlon(a.lat.v, a.lon.v, a.latR.v, a.lonR.v, NeverExceeded)
          IN  /\ raised = ""
              /\ r.warn = 0
              /\ call_out = Ret(PyTuple(<<NdArray("int", r.dlat), NdArray("int", r.dlon)>>))
              /\ warnings = AdvisoryOf("latlon2dlatdlon", call_out.val,
                                       a.warn_distance_above_meter.v)
    /\ (scen = "call" /\ last = "dlatdlon2dxdy")
       => LET a == before.args
              r == dlatdlon2dxdy(a.dlatS.v, a.dlonS.v, a.dlatM.v, a.dlonM.v,
                                 a.wind_direction.v, NeverExceeded)
          IN  /\ raised = ""
              /\ r.warn = 0
              /\ call_out = Ret(PyTuple(<<NdArray("int", r.dx), NdArray("int", r.dy)>>))
              /\ warnings = AdvisoryOf("dlatdlon2dxdy", call_out.val,
                                       a.warn_distance_above_meter.v)

\* Of two points one is a quarter turn away and one at the reference, and
\* the threshold is below the quarter turn: the warning counts one point.
C16_Witness ==
    /\ scen = "call"
    /\ last = "latlon2dlatdlon"
    /\ Len(before.args.lat.v) = 2
    /\ before.args.warn_distance_above_meter = PyInt(warn_distance_above_default)
    /\ warnings = <<[fn |-> "latlon2dlatdlon", points |-> 1]>>
    /\ raised = ""

\* C17: when Plume(...) is given both stability_index and stability_class,
\* construction fails exactly when the index is not valid, whatever the class
\* is; and when it succeeds the stored index is the given index and the
\* stored class the class of that index.
C17_IndexWinsInPlume ==
    (/\ scen = "stab"
     /\ last = "__init__"
     /\ cls = "Plume"
     /\ call_args.args.stability_index # Unset
     /\ call_args.args.stability_class # Unset)
    => /\ raised = stability_index2class(call_args.args.stability_index).exc
       /\ raised = ""
          => /\ phase = "live"
             /\ _stability_index = call_args.args.stability_index
             /\ _stability_class = stability_index2class(call_args.args.stability_index).val

\* A Plume is constructed with the index 5 and a class that is no class.
C17_Witness ==
    /\ scen = "stab"
    /\ last = "__init__"
    /\ cls = "Plume"
    /\ call_args.args.stability_index = PyInt(5)
    /\ call_args.args.stability_class = PyStr("G")
    /\ phase = "live"
    /\ _stability_class = NpStr("F")

\* The value x with every entry negated.
Negated(x) ==
    IF IsNumber(x) THEN PyInt(-x.v) ELSE NdArray("int", [i \in DOMAIN x.v |-> -x.v[i]])

\* C18: calculate_concentration gives for dy = -d what it gives for dy = d,
\* the other arguments being the same: the same exception or the same value.
C18_SymmetricInDy ==
    (scen = "call" /\ last = "calculate_concentration")
    => LET a == before.args
       IN  call_out = calculate_concentration(a.qs, a.wind_speed, a.sigma_y, a.sigma_z,
                                              Negated(a.dy), a.zr, a.hs, a.hm,
                                              a.molecular_mass)

\* A concentration is computed off the plume axis, to both sides in one
\* array.
C18_Witness ==
    /\ scen = "call"
    /\ last = "calculate_concentration"
    /\ raised = ""
    /\ before.args.sigma_y = PyInt(3)
    /\ ~IsNumber(before.args.dy)
    /\ \E i, j \in DOMAIN before.args.dy.v : before.args.dy.v[i] = -7 /\ before.args.dy.v[j] = 4
    /\ \A i \in DOMAIN call_out.val.v : call_out.val.v[i].B.num < 0

\* C19: a call of latlon2dlatdlon, dlatdlon2dxdy, calculate_tc,
\* calculate_sigma or calculate_concentration leaves the arguments the
\* caller passed, arrays included, with the contents they had before it.
C19_ArgumentsAreNotModified ==
    (scen = "call" /\ last # "none") => call_args = before

\* The last valid cell of col at or above row r, not-a-number when there
\* is none.
LastValid(col, r) ==
    LET valid == {j \in 1..r : col[j] # NaN}
    IN  IF valid = {} THEN NaN
        ELSE col[CHOOSE j \in valid : \A k \in valid : k <= j]

\* C20: the table of dynamic parameters import_measurement_parameters_excel
\* returns has the columns and the rows of the sheet it was read from, and
\* every cell is the last valid cell of its column at or above its row,
\* not-a-number when there is none; so a valid cell is as in the sheet.
C20_DynamicParametersForwardFilled ==
    (/\ scen = "call"
     /\ last = "import_measurement_parameters_excel"
     /\ raised = ""
     /\ call_out.val.v[2] # None)
    => LET a == before.args
           sheet == a.paf.sheets[SheetName(a.dynamic_parameters, "dynamic parameters")]
           table == call_out.val.v[2]
       IN  /\ table.v.columns = sheet.v.columns
           /\ DOMAIN table.v.data = DOMAIN sheet.v.data
           /\ \A c \in DOMAIN sheet.v.data :
                 /\ Len(table.v.data[c]) = Len(sheet.v.data[c])
                 /\ \A r \in DOMAIN sheet.v.data[c] :
                       /\ table.v.data[c][r] = LastValid(sheet.v.data[c], r)
                       /\ sheet.v.data[c][r] # NaN
                          => table.v.data[c][r] = sheet.v.data[c][r]

\* A column with a gap before its first value and one after it: the first
\* stays empty, the second is filled.
C20_Witness ==
    /\ scen = "call"
    /\ last = "import_measurement_parameters_excel"
    /\ raised = ""
    /\ call_out.val.v[2] # None
    /\ before.args.paf.sheets["dynamic parameters"].v.data["Roughness"]
           = <<NaN, Float(5, 1), NaN>>
    /\ call_out.val.v[2].v.data["Roughness"] = <<NaN, Float(5, 1), Float(5, 1)>>

\* The entries of a list or an ndarray that are no class letter, in order.
InvalidEntries(x) == Filter(x.v, Letters \ ValidLetters)

\* C21: when stability_class2index rejects a list or an ndarray, the message
\* names the invalid entries, all of them and no valid one, when there are
\* at most two, and gives their number and no value when there are more.
C21_MessageNamesOrCounts ==
    (last = "GPF.stability_class2index" /\ raised # "")
    => LET invalid == InvalidEntries(before.args.stability_class)
       IN  /\ raised = "ValueError"
           /\ Len(invalid) > 0
           /\ Len(invalid) <= 2 => message.values = invalid /\ message.count = 0
           /\ Len(invalid) > 2 => message.values = <<>> /\ message.count = Len(invalid)

\* Three entries, all invalid, are reported by their number.
C21_Witness ==
    /\ last = "GPF.stability_class2index"
    /\ raised = "ValueError"
    /\ before.args.stability_class = PyList("str", <<"G", "", "G">>)
    /\ message.count = 3

\* The travel time sigma_y entry i of a call is computed from; not-a-number
\* when the entry is.
UsedTc(val, i) == ResultEntry(val.v[1], i).tc

\* Entry i of the tc a call was given, as a float.
GivenTc(a, i) == AsFloat(a.tc.dtype, Entry(a.tc, i))

\* C22: when calculate_sigma returns, every entry of sigma_y is computed
\* from tc_minimum where the tc given is below tc_minimum, from the tc given
\* where that is tc_minimum or more, and is not-a-number where dx is below
\* zero.
C22_TcClampedFromBelow ==
    (scen = "call" /\ last = "calculate_sigma" /\ raised = "")
    => LET a == before.args
           lo == AsFloat(a.tc_minimum.dtype, a.tc_minimum.v)
       IN  \A i \in 1..Span(<<a.dx, a.tc>>) :
              IF Below(a.dx.dtype, Entry(a.dx, i), 0)
              THEN UsedTc(call_out.val, i) = NaN
              ELSE IF FloatLess(GivenTc(a, i), lo)
              THEN UsedTc(call_out.val, i) = lo
              ELSE UsedTc(call_out.val, i) = GivenTc(a, i)

\* The same for a tc_minimum that is a whole number, or a tc that is no
\* array of ints.
C22_ClampedWhenStorable ==
    (/\ scen = "call" /\ last = "calculate_sigma" /\ raised = ""
     /\ before.args.tc_minimum.dtype = "int" \/ before.args.tc.dtype = "float"
        \/ IsNumber(before.args.tc))
    => LET a == before.args
           lo == AsFloat(a.tc_minimum.dtype, a.tc_minimum.v)
       IN  \A i \in 1..Span(<<a.dx, a.tc>>) :
              IF Below(a.dx.dtype, Entry(a.dx, i), 0)
              THEN UsedTc(call_out.val, i) = NaN
              ELSE IF FloatLess(GivenTc(a, i), lo)
              THEN UsedTc(call_out.val, i) = lo
              ELSE UsedTc(call_out.val, i) = GivenTc(a, i)

\* C23: once a Plume has a table of dispersion constants, no call of
\* calculate_concentration_prepare_dispersion_constants, alone or as a stage
\* of calculate_concentration, changes it, whatever mode is.
C23_TableSelectedOnce ==
    [][(scen = "plume" /\ dispersion_constants # None)
       => dispersion_constants' = dispersion_constants]_vars

\* The stage was called on a Plume with a table and a mode, and returned.
C23_Witness ==
    /\ last = "calculate_concentration_prepare_dispersion_constants"
    /\ before.dispersion_constants # None
    /\ before.mode = PyStr("nogepa")
    /\ raised = ""
    /\ dispersion_constants = before.dispersion_constants

\* The functions that compute one value per record of a batch.
BatchFunctions ==
    {"latlon2dlatdlon", "dlatdlon2dxdy", "calculate_tc", "calculate_sigma",
     "calculate_concentration"}

\* The arguments of the call c that hold one entry per record.
PerRecord(c) ==
    {f \in DOMAIN c.args : c.args[f].kind = "ndarray" /\ f # "dispersion_constants"}

\* The number of records of the batch the call c is made on.
Records(c) ==
    IF PerRecord(c) = {} THEN 1
    ELSE Len(c.args[CHOOSE f \in PerRecord(c) : TRUE].v)

\* The call c on a batch of record k alone.
Restricted(c, k) ==
    [c EXCEPT !.args = [f \in DOMAIN c.args |->
        IF f \in PerRecord(c) THEN NdArray(c.args[f].dtype, <<c.args[f].v[k]>>)
        ELSE c.args[f]]]

\* What the call c returns or raises.
Outcome(c) ==
    CASE c.fn = "latlon2dlatdlon" ->
            LET r == latlon2dlatdlon(c.args.lat.v, c.args.lon.v, c.args.latR.v,
                                     c.args.lonR.v, c.args.warn_distance_above_meter.v)
            IN  Ret(PyTuple(<<NdArray("int", r.dlat), NdArray("int", r.dlon)>>))
      [] c.fn = "dlatdlon2dxdy" ->
            LET r == dlatdlon2dxdy(c.args.dlatS.v, c.args.dlonS.v, c.args.dlatM.v,
                                   c.args.dlonM.v, c.args.wind_direction.v,
                                   c.args.warn_distance_above_meter.v)
            IN  Ret(PyTuple(<<NdArray("int", r.dx), NdArray("int", r.dy)>>))
      [] c.fn = "calculate_tc" -> GPF_calculate_tc(c.args.dx, c.args.wind_speed)
      [] c.fn = "calculate_sigma" ->
            LET r == calculate_sigma(c.args.dx, c.args.z0, c.args.tc,
                                     c.args.dispersion_constants, c.args.stability_index,
                                     c.args.tc_minimum, c.args.offset_sigma_z)
            IN  IF r.exc # "" THEN Raise(r.exc)
                ELSE Ret(PyTuple(<<r.sigma_y, r.sigma_z>>))
      [] c.fn = "calculate_concentration" ->
            calculate_concentration(c.args.qs, c.args.wind_speed, c.args.sigma_y,
                                    c.args.sigma_z, c.args.dy, c.args.zr, c.args.hs,
                                    c.args.hm, c.args.molecular_mass)

\* What the value val, returned for a batch, holds for record k.
RecordOf(val, k) ==
    IF val.kind = "tuple" THEN <<ResultEntry(val.v[1], k), ResultEntry(val.v[2], k)>>
    ELSE <<ResultEntry(val, k)>>

WithOffsetZero(s) == [s EXCEPT !["offset_sigma_z"] = PyInt(0)]

\* C25: for a Source constructed without offset_sigma_z and with every
\* other input of the spread stage, calculate_sigma_y_z completes where it
\* does for the same Source with offset_sigma_z = 0, and leaves the same
\* sigma_y and sigma_z.
C25_OffsetDefaultsToZero ==
    (/\ scen = "source"
     /\ last = "calculate_sigma_y_z"
     /\ before.src["offset_sigma_z"] = None
     /\ \A f \in SpreadInputs \ {"offset_sigma_z"} : before.src[f] # None
     /\ Source_calculate_sigma_y_z(WithOffsetZero(before.src)).exc = "")
    => /\ raised = ""
       /\ src["sigma_y"] = Source_calculate_sigma_y_z(WithOffsetZero(before.src)).s["sigma_y"]
       /\ src["sigma_z"] = Source_calculate_sigma_y_z(WithOffsetZero(before.src)).s["sigma_z"]

\* What GPFunctions.calculate_concentration gives for the attributes s of a
\* Source.
ConcentrationOf(s) ==
    calculate_concentration(s["qs"], s["wind_speed"], s["sigma_y"], s["sigma_z"],
                            s["dy"], s["zr"], s["hs"], s["hm"], s["molecular_mass"])

\* C26: after Source.calculate_concentration has returned, the concentration
\* of the Source's qs, wind_speed, sigma_y, sigma_z, dy, zr, hs, hm and
\* molar mass is what the call returned or the value of an attribute of the
\* Source.
C26_ConcentrationIsAvailable ==
    (/\ scen = "source"
     /\ last = "Source.calculate_concentration"
     /\ raised = ""
     /\ before.src["sigma_y"].dtype = "int"
     /\ before.src["sigma_z"].dtype = "int")
    => \/ call_out.val = ConcentrationOf(before.src).val
       \/ \E f \in DOMAIN src :
             /\ src[f].dtype = ConcentrationOf(before.src).val.dtype
             /\ src[f] = ConcentrationOf(before.src).val

\* C27: an assignment to stability_index or stability_class of a Source or
\* a Plume that raises leaves both stored attributes as they were before
\* it.
C27_AssignmentsAreAtomic ==
    [][(scen = "stab" /\ phase = "live" /\ raised' # "")
       => /\ _stability_index' = _stability_index
          /\ _stability_class' = _stability_class]_vars

\* The preparation stages of a Plume.
PreparationStages ==
    {"calculate_concentration_prepare_dxdy", "calculate_concentration_prepare_tc",
     "calculate_concentration_prepare_dispersion_constants",
     "calculate_concentration_get_molecular_properties"}

\* C28: when a preparation stage of a Plume has returned and the same stage
\* is called again, the call returns and leaves the DataFrame (columns,
\* order and values) and the attributes of the Plume as the first call left
\* them.
C28_StagesAreIdempotent ==
    [][(/\ scen = "plume"
        /\ last \in PreparationStages
        /\ raised = ""
        /\ last' = last)
       => /\ raised' = ""
          /\ df' = df
          /\ attrVars' = attrVars]_vars

\* The geometry stage has returned a second time on a DataFrame whose dx and
\* dy columns a first call added, after the tc column it was given with.
C28_Witness ==
    /\ HasFrame
    /\ last = "calculate_concentration_prepare_dxdy"
    /\ raised = ""
    /\ before.df = df
    /\ \E i, j \in DOMAIN df.v.columns :
          i < j /\ df.v.columns[i] = "tc" /\ df.v.columns[j] = "dx"
    /\ Column(df, "dx") = FrameOffsets(df).dx

\* C29: when calculate_concentration_get_molecular_properties has returned
\* on a Plume whose masses it has looked up, after whatever calls of
\* import_data and of itself, molecular_mass has one entry per entry of
\* molecules, the i-th being the molar mass of the i-th molecule.
C29_OneMassPerMolecule ==
    (/\ scen = "plume"
     /\ last = "calculate_concentration_get_molecular_properties"
     /\ raised = ""
     /\ molecular_properties # None)
    => /\ Len(molecular_mass.v) = Len(molecules.v)
       /\ \A i \in DOMAIN molecules.v :
             /\ get_molecule_properties(molecules.v[i]).exc = ""
             /\ molecular_mass.v[i]
                    = get_molecule_properties(molecules.v[i]).val.v.molecular_mass

\* The same while no molecule was added and no lookup failed since the
\* Plume was constructed: the masses are those of the molecules given.
C29_MassesOfGivenMolecules ==
    [][(/\ scen = "plume"
        /\ last = "none"
        /\ last' = "calculate_concentration_get_molecular_properties"
        /\ raised' = ""
        /\ molecular_mass = None)
       => /\ Len(molecular_mass'.v) = Len(molecules.v)
          /\ \A i \in DOMAIN molecules.v :
                molecular_mass'.v[i]
                    = get_molecule_properties(molecules.v[i]).val.v.molecular_mass]_vars

\* The offsets of a Source.
OffsetFields == {"dlatS", "dlonS", "dlatM", "dlonM"}

\* dx and dy of the offsets and the wind direction of the attributes s.
SourceOffsets(s) ==
    dlatdlon2dxdy(<<s["dlatS"].v>>, <<s["dlonS"].v>>, <<s["dlatM"].v>>, <<s["dlonM"].v>>,
                  <<s["wind_direction"].v>>, warn_distance_above_default)

\* C30: Source.calculate_dxdy raises nothing but ValueError and then leaves
\* dx and dy as they were; when it returns with dx or dy absent before, the
\* offsets that were given are as they were given and dx and dy are both
\* set, to the wind-aligned offsets of dlatS, dlonS, dlatM and dlonM.
C30_DxdyOnlyTogether ==
    (scen = "source" /\ last = "calculate_dxdy")
    => /\ raised \in {"", "ValueError"}
       /\ raised = "ValueError"
          => src["dx"] = before.src["dx"] /\ src["dy"] = before.src["dy"]
       /\ (raised = "" /\ (before.src["dx"] = None \/ before.src["dy"] = None))
          => /\ \A f \in OffsetFields : before.src[f] # None => src[f] = before.src[f]
             /\ src["dx"] = PyInt(SourceOffsets(src).dx[1])
             /\ src["dy"] = PyInt(SourceOffsets(src).dy[1])

\* The same for offsets given in pairs: dlatS with dlonS, dlatM with dlonM.
C30_PairsUsedAsGiven ==
    (/\ scen = "source" /\ last = "calculate_dxdy"
     /\ (before.src["dlatS"] = None) = (before.src["dlonS"] = None)
     /\ (before.src["dlatM"] = None) = (before.src["dlonM"] = None))
    => /\ raised \in {"", "ValueError"}
       /\ raised = "ValueError"
          => src["dx"] = before.src["dx"] /\ src["dy"] = before.src["dy"]
       /\ (raised = "" /\ (before.src["dx"] = None \/ before.src["dy"] = None))
          => /\ \A f \in OffsetFields : before.src[f] # None => src[f] = before.src[f]
             /\ src["dx"] = PyInt(SourceOffsets(src).dx[1])
             /\ src["dy"] = PyInt(SourceOffsets(src).dy[1])

====
